---- MODULE Spec2Model ----
(***************************************************************************)
(* A model of the dwr surface-provisioning state machine:                  *)
(*   - memfd::Shm                       (src/memfd/src/lib.rs)             *)
(*   - UnboundProtocols / WaylandState  (src/src/state.rs)                 *)
(*   - Surface / UninitSurface and the layer-surface event handler         *)
(*                                      (src/src/surface.rs)               *)
(* The compositor is the environment: it announces globals and sends       *)
(* configure events, which travel through `queue` until a call of          *)
(* handle_events dispatches them.                                          *)
(***************************************************************************)
EXTENDS Integers, Sequences, FiniteSets, TLC

(* ------------------------------ bounds -------------------------------- *)
MaxSurfaces == 2
MaxConfigures == 2
MaxGlobals == 4
MaxDim == 2
MaxLen == 2
MaxMappings == 3

(* ------------------------- program constants -------------------------- *)
bytes_per_pixel == 4
num_of_frames == 2

Dims == 0..MaxDim
Ids == 1..MaxSurfaces

Interfaces == {"wl_compositor", "wl_shm", "zwlr_layer_shell_v1", "wl_seat"}
Required == {"wl_compositor", "wl_shm", "zwlr_layer_shell_v1"}
Layers == {"Top", "Overlay"}

(* Option<T> *)
None == [tag |-> "None"]
Some(v) == [tag |-> "Some", v |-> v]
is_some(o) == o.tag = "Some"

EmptyMap == [k \in {} |-> None]
insert(m, k, v) == [x \in DOMAIN m \cup {k} |-> IF x = k THEN v ELSE m[x]]
remove(m, ks) == [x \in DOMAIN m \ ks |-> m[x]]

(* One entry of the trace of requests and resource operations a handler    *)
(* or API call performs, in program order.                                 *)
Op(name, args) == [op |-> name, args |-> args]

(* ------------------------------ memfd::Shm ---------------------------- *)
(* `fail` names the OS primitive that fails in this call ("ok": none).     *)
ShmFailures == {"ok", "memfd_create", "ftruncate", "mmap"}

(* An mmap that accepts a length of 0.                                     *)
map_shm_memory_AnyLength(length, fail) == fail # "mmap"

(* map_shm_memory: mmap of `length` bytes; mmap rejects a length of 0.     *)
map_shm_memory(length, fail) == length > 0 /\ fail # "mmap"

(* allocate_shm: memfd_create, then ftruncate to `length`.                 *)
allocate_shm(length, fail) == fail \notin {"memfd_create", "ftruncate"}

(* A Shm::new that exposes one byte, whatever length was asked for.        *)
ShmNew_OneByte(length, fd, fail) ==
    IF length = 0 THEN None
    ELSE IF ~allocate_shm(length, fail) THEN None
    ELSE IF ~map_shm_memory(length, fail) THEN None
    ELSE Some([fd |-> fd, length |-> 1, object_size |-> length])

(* Shm::new(length): Err for length 0 before any OS call; else allocate,   *)
(* then map. `fd` is the identity of the descriptor the call creates.      *)
ShmNew(length, fd, fail) ==
    IF length = 0 THEN None
    ELSE IF ~allocate_shm(length, fail) THEN None
    ELSE IF ~map_shm_memory(length, fail) THEN None
    ELSE Some([fd |-> fd, length |-> length, object_size |-> length])

(* A resize that maps anew but keeps the length it had.                    *)
ShmResize_KeepLength(shm, length, fail) ==
    IF fail = "ftruncate" THEN [ok |-> FALSE, shm |-> shm]
    ELSE IF ~map_shm_memory(length, fail)
         THEN [ok |-> FALSE, shm |-> [shm EXCEPT !.object_size = length]]
    ELSE [ok |-> TRUE, shm |-> [shm EXCEPT !.object_size = length]]

(* remap_shm_memory + Shm::resize: ftruncate the object, then map anew;    *)
(* ptr and length are replaced only when both steps succeed.               *)
ShmResize(shm, length, fail) ==
    IF fail = "ftruncate" THEN [ok |-> FALSE, shm |-> shm]
    ELSE IF ~map_shm_memory(length, fail)
         THEN [ok |-> FALSE, shm |-> [shm EXCEPT !.object_size = length]]
    ELSE [ok |-> TRUE,
          shm |-> [shm EXCEPT !.length = length, !.object_size = length]]

(* ----------------- memfd::Shm and the kernel's resources --------------- *)
(* What the kernel holds for the process: `fds`, the memfd descriptors     *)
(* that are open, and `maps`, the memory mappings that are mapped, in the  *)
(* order they were made. A mapping outlives the descriptor it was made     *)
(* from; only munmap removes it.                                           *)
EmptyKernel == [fds |-> {}, maps |-> <<>>]

memfd_create(k, fd) == [k EXCEPT !.fds = @ \cup {fd}]
close(k, fd) == [k EXCEPT !.fds = @ \ {fd}]
mmap(k, fd, length) ==
    [k EXCEPT !.maps = Append(@, [fd |-> fd, length |-> length])]

(* A Shm::new that looks at the length only after the object was made.     *)
ShmNewSys_LateCheck(k, length, fd, fail) ==
    IF fail = "memfd_create"
    THEN [kernel |-> k, calls |-> <<"memfd_create">>, error |-> "Os"]
    ELSE IF fail = "ftruncate"
    THEN [kernel |-> k, calls |-> <<"memfd_create", "ftruncate", "close">>,
          error |-> "Os"]
    ELSE IF length = 0
    THEN [kernel |-> k, calls |-> <<"memfd_create", "ftruncate", "close">>,
          error |-> "InvalidInput"]
    ELSE IF ~map_shm_memory(length, fail)
    THEN [kernel |-> k,
          calls |-> <<"memfd_create", "ftruncate", "mmap", "close">>,
          error |-> "Os"]
    ELSE [kernel |-> mmap(memfd_create(k, fd), fd, length),
          calls |-> <<"memfd_create", "ftruncate", "mmap">>,
          error |-> "none"]

(* A Shm::new that keeps the descriptor as a raw number: nothing closes it *)
(* when a later step fails.                                                *)
ShmNewSys_RawFd(k, length, fd, fail) ==
    IF length = 0
    THEN [kernel |-> k, calls |-> <<>>, error |-> "InvalidInput"]
    ELSE IF fail = "memfd_create"
    THEN [kernel |-> k, calls |-> <<"memfd_create">>, error |-> "Os"]
    ELSE IF fail = "ftruncate"
    THEN [kernel |-> memfd_create(k, fd),
          calls |-> <<"memfd_create", "ftruncate">>, error |-> "Os"]
    ELSE IF ~map_shm_memory(length, fail)
    THEN [kernel |-> memfd_create(k, fd),
          calls |-> <<"memfd_create", "ftruncate", "mmap">>, error |-> "Os"]
    ELSE [kernel |-> mmap(memfd_create(k, fd), fd, length),
          calls |-> <<"memfd_create", "ftruncate", "mmap">>,
          error |-> "none"]

(* Shm::new(length) as the kernel sees it: the calls it makes, in order,   *)
(* the resources the process holds afterwards, and the kind of the error.  *)
(* The descriptor lives in an OwnedFd from memfd_create on, so every       *)
(* return by `?` after that closes it.                                     *)
ShmNewSys(k, length, fd, fail) ==
    IF length = 0
    THEN [kernel |-> k, calls |-> <<>>, error |-> "InvalidInput"]
    ELSE IF fail = "memfd_create"
    THEN [kernel |-> k, calls |-> <<"memfd_create">>, error |-> "Os"]
    ELSE IF fail = "ftruncate"
    THEN [kernel |-> close(memfd_create(k, fd), fd),
          calls |-> <<"memfd_create", "ftruncate", "close">>,
          error |-> "Os"]
    ELSE IF ~map_shm_memory(length, fail)
    THEN [kernel |-> close(memfd_create(k, fd), fd),
          calls |-> <<"memfd_create", "ftruncate", "mmap", "close">>,
          error |-> "Os"]
    ELSE [kernel |-> mmap(memfd_create(k, fd), fd, length),
          calls |-> <<"memfd_create", "ftruncate", "mmap">>,
          error |-> "none"]

(* Shm::resize as the kernel sees it: a successful call maps the object    *)
(* anew; the mapping the region had before is not unmapped.                *)
ShmResizeSys(k, shm, length, fail) ==
    IF ShmResize(shm, length, fail).ok THEN mmap(k, shm.fd, length) ELSE k

(* Dropping a Shm: the struct has no Drop of its own, so only its OwnedFd  *)
(* field is dropped, which closes the descriptor.                          *)
ShmDrop(k, shm) == close(k, shm.fd)

(* Shm::data / Shm::data_mut: a slice of `length` bytes.                   *)
DataLen(shm) == shm.length

(* ------------------------ state.rs: the registry ---------------------- *)
UnboundDefault == [compositor |-> None, shm |-> None, layer |-> None]

(* UnboundProtocols::finalize: when all three are present they are taken   *)
(* out of `unbound` (Option::take leaves None behind) into the snapshot.   *)
UnboundFinalize(u) ==
    IF is_some(u.compositor) /\ is_some(u.shm) /\ is_some(u.layer)
    THEN [unbound |-> UnboundDefault,
          result |-> Some([compositor |-> u.compositor.v,
                           shm |-> u.shm.v,
                           layer |-> u.layer.v])]
    ELSE [unbound |-> u, result |-> None]


(* A registry handler whose wl_shm arm forgets to re-evaluate the          *)
(* snapshot.                                                               *)
RegistryEvent_ShmNoFinalize(s, ev) ==
    LET h == Some(ev.name)
        u == CASE ev.interface = "wl_compositor" ->
                    [s.unbound EXCEPT !.compositor = h]
               [] ev.interface = "wl_shm" ->
                    [s.unbound EXCEPT !.shm = h]
               [] ev.interface = "zwlr_layer_shell_v1" ->
                    [s.unbound EXCEPT !.layer = h]
               [] OTHER -> s.unbound
        f == UnboundFinalize(u)
    IN  IF ev.interface = "wl_shm"
        THEN [s |-> [s EXCEPT !.unbound = u],
              ops |-> <<Op("bind", <<ev.interface, ev.name>>)>>]
        ELSE IF ev.interface \in Required
        THEN [s |-> [s EXCEPT !.unbound = f.unbound, !.bound = f.result],
              ops |-> <<Op("bind", <<ev.interface, ev.name>>)>>]
        ELSE [s |-> s, ops |-> <<>>]

(* Dispatch<WlRegistry>::event. The state `s` is the WaylandState together *)
(* with the history the properties read; the result pairs the new state    *)
(* with the requests issued. proxy.bind(name, ..) yields the handle `name`.*)
RegistryEvent(s, ev) ==
    LET h == Some(ev.name)
        u == CASE ev.interface = "wl_compositor" ->
                    [s.unbound EXCEPT !.compositor = h]
               [] ev.interface = "wl_shm" ->
                    [s.unbound EXCEPT !.shm = h]
               [] ev.interface = "zwlr_layer_shell_v1" ->
                    [s.unbound EXCEPT !.layer = h]
               [] OTHER -> s.unbound
        f == UnboundFinalize(u)
    IN  IF ev.interface \in Required
        THEN [s |-> [s EXCEPT !.unbound = f.unbound, !.bound = f.result],
              ops |-> <<Op("bind", <<ev.interface, ev.name>>)>>]
        ELSE [s |-> s, ops |-> <<>>]

(* ----------------------- surface.rs: properties ----------------------- *)
MarginsDefault == [top |-> 0, right |-> 0, bottom |-> 0, left |-> 0]
Sizes(width, height) == [width |-> width, height |-> height]

(* SurfaceProperties::default *)
SurfacePropertiesDefault ==
    [margins |-> MarginsDefault, anchor |-> "Top", interactivity |-> "None",
     layer |-> "Top", sizes |-> Sizes(0, 0)]

(* ------------- surface.rs: the layer-surface event handler ------------ *)
(* A handler that takes the server's dimensions as they come.              *)
NonZeroOr1_Identity(x) == x

(* NonZero::try_from(x).unwrap_or(1): a dimension of 0 becomes 1.          *)
NonZeroOr1(x) == IF x = 0 THEN 1 ELSE x

(* stride and total_buffer_size are u32 products; with the dimensions of   *)
(* this model they stay far below 2^32, so no product wraps here.          *)
Stride(width) == width * bytes_per_pixel

(* A buffer size that counts one frame.                                    *)
TotalBufferSize_OneFrame(width, height) == height * Stride(width)

TotalBufferSize(width, height) == height * Stride(width) * num_of_frames

CreateBuffer(width, height) ==
    [offset |-> 0, width |-> width, height |-> height,
     stride |-> Stride(width), format |-> "Argb8888"]

(* A publication that damages before it attaches.                         *)
Publish_DamageFirst(id, width, height) ==
    << Op("damage", <<id, 0, 0, width, height>>),
       Op("attach", <<id, CreateBuffer(width, height), 0, 0>>),
       Op("commit", <<id>>) >>

(* The requests that publish a buffer: attach, damage, commit.             *)
Publish(id, width, height) ==
    << Op("attach", <<id, CreateBuffer(width, height), 0, 0>>),
       Op("damage", <<id, 0, 0, width, height>>),
       Op("commit", <<id>>) >>

(* A live path that resizes the GPU surface before it knows whether the   *)
(* region could be resized.                                                *)
LivePath_GpuFirst(s, ev, o) ==
    LET id == ev.id
        width == NonZeroOr1(ev.width)
        height == NonZeroOr1(ev.height)
        total == TotalBufferSize(width, height)
    IN  IF id \notin DOMAIN s.surface_links THEN [s |-> s, ops |-> <<>>]
        ELSE
        LET linked == s.surface_links[id]
            r == ShmResize(linked.shm, total, o.shm)
            tried == <<Op("GpuSurface::resize", <<id, width, height>>),
                       Op("Shm::resize", <<id, total, r.ok>>)>>
        IN  IF ~r.ok
            THEN [s |-> [s EXCEPT
                          !.surface_links[id].shm = r.shm,
                          !.surface_links[id].gpu_surface =
                              Sizes(width, height)],
                  ops |-> tried]
            ELSE [s |-> [s EXCEPT
                          !.surface_links[id] =
                              [linked EXCEPT
                                 !.shm = r.shm,
                                 !.gpu_surface = Sizes(width, height),
                                 !.properties.sizes = Sizes(width, height)],
                          !.kernel = ShmResizeSys(@, linked.shm, total, o.shm),
                          !.configured[id] =
                              [gen |-> @.gen + 1, width |-> width,
                               height |-> height,
                               zero |-> ev.width = 0 \/ ev.height = 0]],
                  ops |-> tried
                          \o <<Op("create_buffer",
                                  <<id, CreateBuffer(width, height)>>),
                               Op("GpuSurface::resize", <<id, width, height>>)>>
                          \o Publish(id, width, height)]

(* Configure, first `if`: the id names a live surface and its region       *)
(* resizes. Shm::resize works on the region in place, so what it did to    *)
(* the backing object stays also when it returns Err.                      *)
LivePath(s, ev, o) ==
    LET id == ev.id
        width == NonZeroOr1(ev.width)
        height == NonZeroOr1(ev.height)
        total == TotalBufferSize(width, height)
    IN  IF id \notin DOMAIN s.surface_links THEN [s |-> s, ops |-> <<>>]
        ELSE
        LET linked == s.surface_links[id]
            r == ShmResize(linked.shm, total, o.shm)
            tried == <<Op("Shm::resize", <<id, total, r.ok>>)>>
        IN  IF ~r.ok
            THEN [s |-> [s EXCEPT !.surface_links[id].shm = r.shm],
                  ops |-> tried]
            ELSE [s |-> [s EXCEPT
                          !.surface_links[id] =
                              [linked EXCEPT
                                 !.shm = r.shm,
                                 !.gpu_surface = Sizes(width, height),
                                 !.properties.sizes = Sizes(width, height)],
                          !.kernel = ShmResizeSys(@, linked.shm, total, o.shm),
                          !.configured[id] =
                              [gen |-> @.gen + 1, width |-> width,
                               height |-> height,
                               zero |-> ev.width = 0 \/ ev.height = 0]],
                  ops |-> tried
                          \o <<Op("GpuSurface::resize", <<id, width, height>>),
                               Op("create_buffer",
                                  <<id, CreateBuffer(width, height)>>),
                               Op("GpuSurface::resize", <<id, width, height>>)>>
                          \o Publish(id, width, height)]

(* A pending path that makes the pool and records the region as soon as   *)
(* Shm::new succeeds, and tries the GPU surface afterwards.                *)
PendingPath_BufferBeforeGpu(s, ev, o) ==
    LET id == ev.id
        width == NonZeroOr1(ev.width)
        height == NonZeroOr1(ev.height)
        total == TotalBufferSize(width, height)
    IN  IF id \notin DOMAIN s.surface_creators \/ ~is_some(s.bound)
        THEN [s |-> s, ops |-> <<>>]
        ELSE
        LET linked == s.surface_creators[id]
            shm == ShmNew(total, ev.serial, o.shm)
            sys == ShmNewSys(s.kernel, total, ev.serial, o.shm)
            tried == <<Op("Shm::new", <<id, total, is_some(shm)>>)>>
        IN  IF ~is_some(shm) THEN [s |-> [s EXCEPT !.kernel = sys.kernel],
                                   ops |-> tried]
            ELSE
            LET pool == [fd |-> shm.v.fd, size |-> total]
                buffer == CreateBuffer(width, height)
                made == <<Op("create_pool", <<id, pool.fd, pool.size>>),
                          Op("create_buffer", <<id, buffer>>)>>
                gpu == <<Op("GpuSurface::new", <<id, width, height, o.gpu>>)>>
                s1 == [s EXCEPT
                         !.created[id].regions = @ + 1,
                         !.created[id].pools = @ + 1,
                         !.kernel = IF is_some(linked.data)
                                    THEN ShmDrop(sys.kernel, linked.data.v)
                                    ELSE sys.kernel,
                         !.surface_creators[id] =
                             [linked EXCEPT
                                !.buffers = Some(<<pool, buffer>>),
                                !.data = shm]]
            IN  IF ~o.gpu THEN [s |-> s1, ops |-> tried \o made \o gpu]
                ELSE [s |-> [s1 EXCEPT
                               !.surface_creators[id].gpu_surface =
                                   Some(Sizes(width, height)),
                               !.configured[id] =
                                   [gen |-> @.gen + 1, width |-> width,
                                    height |-> height,
                                    zero |-> ev.width = 0 \/ ev.height = 0]],
                      ops |-> tried \o made \o gpu
                              \o Publish(id, width, height)]

(* Configure, second `if`: the id names a pending surface, the protocols   *)
(* are bound, Shm::new succeeds and GpuSurface::new succeeds. The chain    *)
(* stops at the first condition that fails; a region made before the       *)
(* failure is dropped, and so is the region the new one replaces.          *)
PendingPath(s, ev, o) ==
    LET id == ev.id
        width == NonZeroOr1(ev.width)
        height == NonZeroOr1(ev.height)
        total == TotalBufferSize(width, height)
    IN  IF id \notin DOMAIN s.surface_creators \/ ~is_some(s.bound)
        THEN [s |-> s, ops |-> <<>>]
        ELSE
        LET linked == s.surface_creators[id]
            shm == ShmNew(total, ev.serial, o.shm)
            sys == ShmNewSys(s.kernel, total, ev.serial, o.shm)
            tried == <<Op("Shm::new", <<id, total, is_some(shm)>>)>>
        IN  IF ~is_some(shm) THEN [s |-> [s EXCEPT !.kernel = sys.kernel],
                                   ops |-> tried]
            ELSE
            LET s1 == [s EXCEPT !.created[id].regions = @ + 1]
                gpu == <<Op("GpuSurface::new", <<id, width, height, o.gpu>>)>>
            IN  IF ~o.gpu
                THEN [s |-> [s1 EXCEPT !.kernel = ShmDrop(sys.kernel, shm.v)],
                      ops |-> tried \o gpu]
                ELSE
                LET pool == [fd |-> shm.v.fd, size |-> total]
                    buffer == CreateBuffer(width, height)
                IN  [s |-> [s1 EXCEPT
                              !.surface_creators[id] =
                                  [linked EXCEPT
                                     !.gpu_surface = Some(Sizes(width, height)),
                                     !.buffers = Some(<<pool, buffer>>),
                                     !.data = shm],
                              !.kernel = IF is_some(linked.data)
                                         THEN ShmDrop(sys.kernel, linked.data.v)
                                         ELSE sys.kernel,
                              !.created[id].pools = @ + 1,
                              !.configured[id] =
                                  [gen |-> @.gen + 1, width |-> width,
                                   height |-> height,
                                   zero |-> ev.width = 0 \/ ev.height = 0]],
                     ops |-> tried \o gpu
                             \o <<Op("create_pool", <<id, pool.fd, pool.size>>),
                                  Op("create_buffer", <<id, buffer>>)>>
                             \o Publish(id, width, height)]

(* A handler that acknowledges after the provisioning.                     *)
LayerSurfaceConfigure_AckLast(s, ev, o) ==
    LET ack == <<Op("ack_configure", <<ev.id, ev.serial>>)>>
        live == LivePath(s, ev, o)
        pend == PendingPath(live.s, ev, o)
    IN  [s |-> pend.s, ops |-> live.ops \o pend.ops \o ack]

(* A handler that acknowledges only what it could provision.               *)
LayerSurfaceConfigure_AckOnSuccess(s, ev, o) ==
    LET ack == <<Op("ack_configure", <<ev.id, ev.serial>>)>>
        live == LivePath(s, ev, o)
        pend == PendingPath(live.s, ev, o)
    IN  [s |-> pend.s,
         ops |-> (IF pend.s.configured = s.configured THEN <<>> ELSE ack)
                 \o live.ops \o pend.ops]

(* A handler that commits the surface at its end, whatever happened.       *)
LayerSurfaceConfigure_CommitAlways(s, ev, o) ==
    LET ack == <<Op("ack_configure", <<ev.id, ev.serial>>)>>
        live == LivePath(s, ev, o)
        pend == PendingPath(live.s, ev, o)
    IN  [s |-> pend.s,
         ops |-> ack \o live.ops \o pend.ops \o <<Op("commit", <<ev.id>>)>>]

(* A Configure arm that waits for the compositor's next events itself.     *)
LayerSurfaceConfigure_Redispatch(s, ev, o) ==
    LET ack == <<Op("ack_configure", <<ev.id, ev.serial>>)>>
        live == LivePath(s, ev, o)
        pend == PendingPath(live.s, ev, o)
    IN  [s |-> pend.s,
         ops |-> ack \o live.ops \o pend.ops
                 \o (IF ev.id \in DOMAIN s.surface_creators
                     THEN <<Op("blocking_dispatch", <<>>)>> ELSE <<>>)]

(* A Configure arm that gives an event for an unknown id to the first live *)
(* surface.                                                                *)
LayerSurfaceConfigure_FirstLive(s, ev, o) ==
    LET known == DOMAIN s.surface_links \cup DOMAIN s.surface_creators
        first == CHOOSE x \in DOMAIN s.surface_links :
                     \A y \in DOMAIN s.surface_links : x <= y
        to == IF ev.id \notin known /\ DOMAIN s.surface_links # {}
              THEN [ev EXCEPT !.id = first] ELSE ev
        ack == <<Op("ack_configure", <<ev.id, ev.serial>>)>>
        live == LivePath(s, to, o)
        pend == PendingPath(live.s, to, o)
    IN  [s |-> pend.s, ops |-> ack \o live.ops \o pend.ops]

(* Dispatch<ZwlrLayerSurfaceV1>::event, Configure arm: acknowledge, then   *)
(* the live path, then the pending path.                                   *)
LayerSurfaceConfigure(s, ev, o) ==
    LET ack == <<Op("ack_configure", <<ev.id, ev.serial>>)>>
        live == LivePath(s, ev, o)
        pend == PendingPath(live.s, ev, o)
    IN  [s |-> pend.s, ops |-> ack \o live.ops \o pend.ops]


(* Dispatch<ZwlrLayerSurfaceV1>::event: the Configure arm above; the       *)
(* Closed arm and the catch-all arm are `todo!()`, which panics.           *)
LayerSurfaceEvent(s, ev, o) ==
    IF ev.type = "Configure" THEN LayerSurfaceConfigure(s, ev, o)
    ELSE [s |-> [s EXCEPT !.panicked = TRUE], ops |-> <<>>]

(* ------------------- surface.rs: UninitSurface ------------------------ *)
BUFFER_NAMESPACE == "DWR_BUF"

(* UninitSurface::is_ready *)
is_ready(uninit) == is_some(uninit.buffers) /\ is_some(uninit.data)

(* Property requests that commit before the size is requested.            *)
PropertyRequests_CommitFirst(id, props, sizes) ==
    << Op("set_margin", <<id, props.margins.top, props.margins.right,
                          props.margins.bottom, props.margins.left>>),
       Op("set_anchor", <<id, props.anchor>>),
       Op("set_keyboard_interactivity", <<id, props.interactivity>>),
       Op("commit", <<id>>),
       Op("set_size", <<id, sizes.width, sizes.height>>) >>

(* The property requests setup and set_properties send before the commit.  *)
PropertyRequests(id, props, sizes) ==
    << Op("set_margin", <<id, props.margins.top, props.margins.right,
                          props.margins.bottom, props.margins.left>>),
       Op("set_anchor", <<id, props.anchor>>),
       Op("set_keyboard_interactivity", <<id, props.interactivity>>),
       Op("set_size", <<id, sizes.width, sizes.height>>),
       Op("commit", <<id>>) >>

(* A setup that registers every pending surface under the first id.       *)
SetupBound_FirstKey(s, width, height, layer, id) ==
    LET uninit == [properties |->
                       [SurfacePropertiesDefault EXCEPT
                          !.sizes = Sizes(width, height)],
                   surface |-> 1,
                   layer_surface |-> 1,
                   gpu_surface |-> None,
                   buffers |-> None,
                   data |-> None]
    IN  [s |-> [s EXCEPT !.surface_creators = insert(@, 1, uninit)],
         ops |-> <<Op("create_surface", <<id>>),
                   Op("get_layer_surface", <<id, layer, BUFFER_NAMESPACE>>)>>
                 \o PropertyRequests(id, uninit.properties,
                                     uninit.properties.sizes),
         result |-> Some(id)]

(* UninitSurface::setup after the `?`: the objects are created, the        *)
(* properties requested, the pending surface registered. `id` is the       *)
(* object id the connection gives the new layer surface.                   *)
SetupBound(s, width, height, layer, id) ==
    LET uninit == [properties |->
                       [SurfacePropertiesDefault EXCEPT
                          !.sizes = Sizes(width, height)],
                   surface |-> id,
                   layer_surface |-> id,
                   gpu_surface |-> None,
                   buffers |-> None,
                   data |-> None]
    IN  [s |-> [s EXCEPT !.surface_creators = insert(@, id, uninit)],
         ops |-> <<Op("create_surface", <<id>>),
                   Op("get_layer_surface", <<id, layer, BUFFER_NAMESPACE>>)>>
                 \o PropertyRequests(id, uninit.properties,
                                     uninit.properties.sizes),
         result |-> Some(id)]

(* A setup that creates and registers the surface before it looks at the  *)
(* snapshot.                                                               *)
Setup_Unchecked(s, width, height, layer, id) ==
    [SetupBound(s, width, height, layer, id) EXCEPT
       !.result = IF is_some(s.bound) THEN @ ELSE None]

(* UninitSurface::setup: `state.bound.as_ref()?` returns None, before      *)
(* anything is done, when the protocols are not bound.                     *)
Setup(s, width, height, layer, id) ==
    IF ~is_some(s.bound) THEN [s |-> s, ops |-> <<>>, result |-> None]
    ELSE SetupBound(s, width, height, layer, id)

(* A finalize that builds no Surface: the pending surface is dropped.      *)
Finalize_None(s, uninit) ==
    IF is_some(uninit.data)
    THEN [s EXCEPT !.kernel = ShmDrop(@, uninit.data.v)]
    ELSE s

(* UninitSurface::finalize: a Surface is built, and inserted in            *)
(* surface_links, only when data, buffers and gpu_surface are all present; *)
(* otherwise the pending surface is dropped, its region with it.           *)
Finalize(s, uninit) ==
    IF is_some(uninit.data) /\ is_some(uninit.buffers)
       /\ is_some(uninit.gpu_surface)
    THEN [s EXCEPT !.surface_links =
              insert(@, uninit.layer_surface,
                     [shm |-> uninit.data.v,
                      surface |-> uninit.surface,
                      layer_surface |-> uninit.layer_surface,
                      gpu_surface |-> uninit.gpu_surface.v,
                      pool |-> uninit.buffers.v[1],
                      properties |-> uninit.properties])]
    ELSE IF is_some(uninit.data)
    THEN [s EXCEPT !.kernel = ShmDrop(@, uninit.data.v)]
    ELSE s

RECURSIVE FinalizeAll(_, _, _)
FinalizeAll(s, ready, ids) ==
    IF ids = {} THEN s
    ELSE LET id == CHOOSE x \in ids : \A y \in ids : x <= y
         IN  FinalizeAll(Finalize(s, ready[id]), ready, ids \ {id})

(* A finalization that leaves the ready surfaces in surface_creators.      *)
FinalizeReady_KeepPending(s) ==
    LET ids == {id \in DOMAIN s.surface_creators :
                   is_ready(s.surface_creators[id])}
    IN  FinalizeAll(s, s.surface_creators, ids)

(* handle_events after the dispatch: extract_if takes every ready pending  *)
(* surface out of surface_creators, then each one is finalized.            *)
FinalizeReady(s) ==
    LET ids == {id \in DOMAIN s.surface_creators :
                   is_ready(s.surface_creators[id])}
        s1 == [s EXCEPT !.surface_creators = remove(@, ids)]
    IN  FinalizeAll(s1, s.surface_creators, ids)

(* ------------------- state.rs: the event dispatch --------------------- *)
(* What the OS does in one handler run: which primitive of the shared-     *)
(* memory call fails, and whether the GPU context can be made (which is    *)
(* tried only after the shared-memory call succeeded).                     *)
Outcomes == {o \in [shm : ShmFailures, gpu : BOOLEAN] : o.shm # "ok" => o.gpu}
NoOutcome == [shm |-> "ok", gpu |-> TRUE]

RECURSIVE OutcomeSeqs(_)
OutcomeSeqs(evs) ==
    IF evs = <<>> THEN {<<>>}
    ELSE {<<o>> \o r :
            o \in (IF Head(evs).type = "Configure" THEN Outcomes
                   ELSE {NoOutcome}),
            r \in OutcomeSeqs(Tail(evs))}

(* The serials acknowledged by a handler run, in order.                    *)
RECURSIVE AckedIn(_)
AckedIn(ops) ==
    IF ops = <<>> THEN <<>>
    ELSE (IF Head(ops).op = "ack_configure" THEN <<Head(ops).args>> ELSE <<>>)
         \o AckedIn(Tail(ops))

(* The event queue hands the events to their handlers one by one, in the   *)
(* order they arrived; a handler that panics ends the dispatch.            *)
RECURSIVE Dispatch(_, _, _)
Dispatch(s, evs, os) ==
    IF evs = <<>> \/ s.panicked THEN s
    ELSE
    LET ev == Head(evs)
        r == IF ev.type = "Global" THEN RegistryEvent(s, ev)
             ELSE LayerSurfaceEvent(s, ev, Head(os))
        s1 == [r.s EXCEPT
                 !.globals = IF ev.type = "Global"
                             THEN Append(@, ev.interface) ELSE @,
                 !.recvd = IF ev.type = "Configure"
                           THEN Append(@, <<ev.id, ev.serial>>) ELSE @,
                 !.acks = @ \o AckedIn(r.ops)]
    IN  Dispatch(s1, Tail(evs), Tail(os))


(* WaylandClient::init: nothing is borrowed, no callback is registered.    *)
ClientInit == [ud |-> FALSE, state |-> FALSE, callbacks |-> {}, running |-> {}]

(* ------------------------------- state -------------------------------- *)
VARIABLES
    unbound,            \* WaylandState.unbound
    bound,              \* WaylandState.bound
    surface_creators,   \* WaylandState.surface_creators: id -> UninitSurface
    surface_links,      \* WaylandState.surface_links: id -> Surface
    queue,              \* events sent by the compositor, not yet dispatched
    next_id,            \* the next layer-surface object id of the connection
    next_serial,        \* the compositor's next configure serial
    next_name,          \* the compositor's next global name
    last,               \* the last call or step and its result
    configured,         \* history: id -> generation and size of the last
                        \*          configure whose provisioning completed,
                        \*          and whether it carried a zero dimension
    created,            \* history: id -> regions and pools made while pending
    globals,            \* history: interfaces of the globals handled, in order
    recvd,              \* history: <<id, serial>> of the configures handled
    acks,               \* history: <<id, serial>> of the acknowledgements sent
    kernel,             \* the descriptors and mappings the process holds
    panicked,           \* a handler panicked: the process is gone
    region,             \* a Shm a caller of the memfd crate holds, if any
    blocking,           \* the id a create_surface_blocking call waits for
    client,             \* lua/entry.rs WaylandClient: the borrows of the
                        \* state cell and of the userdata, the callbacks
    active_creator      \* main.rs WaylandState.active_creator

vars == <<unbound, bound, surface_creators, surface_links, queue, next_id,
          next_serial, next_name, last, configured, created, globals,
          recvd, acks, kernel, panicked, region,
                   blocking, client, active_creator>>

env == <<queue, next_serial, next_name>>

(* The WaylandState and the history, as the handlers take it.              *)
St == [unbound |-> unbound, bound |-> bound,
       surface_creators |-> surface_creators, surface_links |-> surface_links,
       configured |-> configured, created |-> created, globals |-> globals,
       recvd |-> recvd, acks |-> acks, kernel |-> kernel,
       panicked |-> panicked]

Becomes(s) ==
    /\ unbound' = s.unbound
    /\ bound' = s.bound
    /\ surface_creators' = s.surface_creators
    /\ surface_links' = s.surface_links
    /\ configured' = s.configured
    /\ created' = s.created
    /\ globals' = s.globals
    /\ recvd' = s.recvd
    /\ acks' = s.acks
    /\ kernel' = s.kernel
    /\ panicked' = s.panicked

(* WaylandState::new *)
Init ==
    /\ unbound = UnboundDefault
    /\ bound = None
    /\ surface_creators = EmptyMap
    /\ surface_links = EmptyMap
    /\ queue = <<>>
    /\ next_id = 1
    /\ next_serial = 1
    /\ next_name = 1
    /\ last = [op |-> "new", result |-> None]
    /\ configured = [id \in Ids |-> [gen |-> 0, width |-> 0, height |-> 0,
                                     zero |-> FALSE]]
    /\ created = [id \in Ids |-> [regions |-> 0, pools |-> 0]]
    /\ globals = <<>>
    /\ recvd = <<>>
    /\ acks = <<>>
    /\ kernel = EmptyKernel
    /\ panicked = FALSE
    /\ region = None
    /\ blocking = None
    /\ client = ClientInit
    /\ active_creator = None

(* ---------------------------- the compositor -------------------------- *)
(* wl_registry.global: the compositor announces a global.                  *)
AnnounceGlobal(interface) ==
    /\ next_name <= MaxGlobals
    /\ queue' = Append(queue, [type |-> "Global", name |-> next_name,
                               interface |-> interface])
    /\ next_name' = next_name + 1
    /\ last' = [op |-> "global", result |-> None]
    /\ UNCHANGED <<unbound, bound, surface_creators, surface_links, next_id,
                   next_serial, configured, created, globals, recvd, acks,
                   kernel, panicked, region,
                   blocking, client, active_creator>>

(* zwlr_layer_surface_v1.configure for a layer surface the client made.    *)
SendConfigure(id, width, height) ==
    /\ next_serial <= MaxConfigures
    /\ id < next_id
    /\ queue' = Append(queue, [type |-> "Configure", id |-> id,
                               serial |-> next_serial,
                               width |-> width, height |-> height])
    /\ next_serial' = next_serial + 1
    /\ last' = [op |-> "configure", result |-> None]
    /\ UNCHANGED <<unbound, bound, surface_creators, surface_links, next_id,
                   next_name, configured, created, globals, recvd, acks,
                   kernel, panicked, region,
                   blocking, client, active_creator>>

(* ------------------------------ the client ---------------------------- *)
(* WaylandState::handle_events: blocking_dispatch hands the first n queued *)
(* events to their handlers; blocking_dispatch may return an error (after  *)
(* any number of events), and `?` then returns before the finalization.    *)
HandleEvents ==
    \E n \in 0..Len(queue), err \in BOOLEAN :
      /\ ~panicked
      /\ blocking = None
      /\ err \/ n >= 1
      /\ \E os \in OutcomeSeqs(SubSeq(queue, 1, n)) :
           LET d == Dispatch(St, SubSeq(queue, 1, n), os)
           IN  Becomes(IF err THEN d ELSE FinalizeReady(d))
      /\ queue' = SubSeq(queue, n + 1, Len(queue))
      /\ last' = [op |-> "handle_events",
                  result |-> IF err THEN None ELSE Some(n)]
      /\ UNCHANGED <<next_id, next_serial, next_name, region,
                   blocking, client, active_creator>>

(* WaylandState::create_surface_async *)
CreateSurfaceAsync(width, height, layer) ==
    LET r == Setup(St, width, height, layer, next_id)
    IN  /\ ~panicked
        /\ blocking = None
        /\ is_some(r.result) => next_id <= MaxSurfaces
        /\ Becomes(r.s)
        /\ next_id' = IF is_some(r.result) THEN next_id + 1 ELSE next_id
        /\ last' = [op |-> "create_surface_async", result |-> r.result]
        /\ UNCHANGED <<env, region,
                   blocking, client, active_creator>>

(* WaylandState::create_surface_blocking, up to the loop: setup, and       *)
(* `?` returns None when setup did.                                        *)
CreateSurfaceBlocking(width, height, layer) ==
    LET r == Setup(St, width, height, layer, next_id)
    IN  /\ ~panicked
        /\ blocking = None
        /\ is_some(r.result) => next_id <= MaxSurfaces
        /\ Becomes(r.s)
        /\ next_id' = IF is_some(r.result) THEN next_id + 1 ELSE next_id
        /\ blocking' = r.result
        /\ UNCHANGED <<client, active_creator>>
        /\ last' = IF is_some(r.result)
                   THEN [op |-> "setup", result |-> r.result]
                   ELSE [op |-> "create_surface_blocking", result |-> None]
        /\ UNCHANGED <<env, region>>

(* The loop test finds the id in surface_links: Some(id) is returned.      *)
BlockingReturn ==
    /\ ~panicked
    /\ is_some(blocking)
    /\ blocking.v \in DOMAIN surface_links
    /\ blocking' = None
    /\ UNCHANGED <<client, active_creator>>
    /\ last' = [op |-> "create_surface_blocking", result |-> blocking]
    /\ UNCHANGED <<unbound, bound, surface_creators, surface_links, next_id,
                   configured, created, globals, recvd, acks, kernel,
                   panicked, region>>
    /\ UNCHANGED env

(* The loop body: handle_events; `.ok()?` returns None when it failed.     *)
BlockingHandleEvents ==
    \E n \in 0..Len(queue), err \in BOOLEAN :
      /\ ~panicked
      /\ is_some(blocking)
      /\ blocking.v \notin DOMAIN surface_links
      /\ err \/ n >= 1
      /\ \E os \in OutcomeSeqs(SubSeq(queue, 1, n)) :
           LET d == Dispatch(St, SubSeq(queue, 1, n), os)
           IN  Becomes(IF err THEN d ELSE FinalizeReady(d))
      /\ queue' = SubSeq(queue, n + 1, Len(queue))
      /\ blocking' = IF err THEN None ELSE blocking
      /\ UNCHANGED <<client, active_creator>>
      /\ last' = IF err
                 THEN [op |-> "create_surface_blocking", result |-> None]
                 ELSE [op |-> "handle_events", result |-> Some(n)]
      /\ UNCHANGED <<next_id, next_serial, next_name, region>>

(* A set_size that resizes the region to the size it asks for.             *)
SurfaceSetSize_Eager(surface, sizes) ==
    [surface |-> [surface EXCEPT
                    !.shm.length = TotalBufferSize(NonZeroOr1(sizes.width),
                                                   NonZeroOr1(sizes.height))],
     ops |-> <<Op("set_size", <<surface.layer_surface, sizes.width,
                                sizes.height>>),
               Op("commit", <<surface.layer_surface>>)>>]

(* Surface::set_size: a request and a commit; nothing is recorded.         *)
SurfaceSetSize(surface, sizes) ==
    [surface |-> surface,
     ops |-> <<Op("set_size", <<surface.layer_surface, sizes.width,
                                sizes.height>>),
               Op("commit", <<surface.layer_surface>>)>>]

(* A set_properties that records the size it asks for.                     *)
SurfaceSetProperties_Eager(surface, props) ==
    [surface |-> [surface EXCEPT !.properties = props],
     ops |-> PropertyRequests(surface.layer_surface, props, props.sizes)]

(* Surface::set_properties: the new properties are recorded with the old   *)
(* size; the new size is only requested.                                   *)
SurfaceSetProperties(surface, props) ==
    LET kept == [props EXCEPT !.sizes = surface.properties.sizes]
    IN  [surface |-> [surface EXCEPT !.properties = kept],
         ops |-> PropertyRequests(surface.layer_surface, kept, props.sizes)]

SetSize(id, sizes) ==
    /\ ~panicked
    /\ blocking = None
    /\ id \in DOMAIN surface_links
    /\ LET r == SurfaceSetSize(surface_links[id], sizes)
       IN  surface_links' = [surface_links EXCEPT ![id] = r.surface]
    /\ last' = [op |-> "set_size", result |-> None]
    /\ UNCHANGED <<unbound, bound, surface_creators, next_id, configured,
                   created, globals, recvd, acks, kernel, panicked,
                   region, blocking, client, active_creator>>
    /\ UNCHANGED env

SetProperties(id, props) ==
    /\ ~panicked
    /\ blocking = None
    /\ id \in DOMAIN surface_links
    /\ LET r == SurfaceSetProperties(surface_links[id], props)
       IN  surface_links' = [surface_links EXCEPT ![id] = r.surface]
    /\ last' = [op |-> "set_properties", result |-> None]
    /\ UNCHANGED <<unbound, bound, surface_creators, next_id, configured,
                   created, globals, recvd, acks, kernel, panicked,
                   region, blocking, client, active_creator>>
    /\ UNCHANGED env

(* The sizes a caller asks for: "you decide" and the largest.              *)
RequestSizes == {Sizes(0, 0), Sizes(MaxDim, MaxDim)}

(* The properties a caller passes to set_properties.                       *)
PropertyInputs ==
    { [margins |-> m, anchor |-> "Top", interactivity |-> "None",
       layer |-> "Top", sizes |-> z] :
        m \in {MarginsDefault,
               [top |-> 1, right |-> 0, bottom |-> 0, left |-> 0]},
        z \in RequestSizes }

(* A compositor that announces each required global once, at start-up,    *)
(* in the order it made them.                                              *)
StartupGlobals == <<"wl_compositor", "wl_shm", "zwlr_layer_shell_v1">>

AnnounceStartup ==
    /\ next_name <= Len(StartupGlobals)
    /\ AnnounceGlobal(StartupGlobals[next_name])

Next ==
    \/ AnnounceStartup
    \/ \E id \in Ids, w \in Dims, h \in Dims : SendConfigure(id, w, h)
    \/ HandleEvents
    \/ \E z \in RequestSizes, l \in Layers :
          CreateSurfaceAsync(z.width, z.height, l)
    \/ \E id \in Ids, z \in RequestSizes : SetSize(id, z)
    \/ \E id \in Ids, p \in PropertyInputs : SetProperties(id, p)

Spec == Init /\ [][Next]_vars

(* The registry alone, with a compositor free to announce any interface    *)
(* any number of times.                                                    *)
NextRegistry ==
    \/ \E i \in Interfaces : AnnounceGlobal(i)
    \/ HandleEvents
    \/ \E z \in RequestSizes, l \in Layers :
          CreateSurfaceAsync(z.width, z.height, l)

SpecRegistry == Init /\ [][NextRegistry]_vars

(* A compositor that also closes layer surfaces.                           *)
SendClosed(id) ==
    /\ id < next_id
    /\ \A i \in DOMAIN queue :
          ~(queue[i].type = "Closed" /\ queue[i].id = id)
    /\ queue' = Append(queue, [type |-> "Closed", id |-> id])
    /\ last' = [op |-> "closed", result |-> None]
    /\ UNCHANGED <<unbound, bound, surface_creators, surface_links, next_id,
                   next_serial, next_name, configured, created, globals,
                   recvd, acks, kernel, panicked, region,
                   blocking, client, active_creator>>

NextClosed ==
    \/ AnnounceStartup
    \/ \E id \in Ids : SendConfigure(id, MaxDim, MaxDim)
    \/ \E id \in Ids : SendClosed(id)
    \/ HandleEvents
    \/ \E z \in RequestSizes, l \in Layers :
          CreateSurfaceAsync(z.width, z.height, l)

SpecClosed == Init /\ [][NextClosed]_vars

(* The scenario of a surface that is configured at 500x300 with serial 7,  *)
(* and then at 600x300 with serial 8.                                      *)
ScenarioConfigures ==
    << [serial |-> 7, width |-> 500, height |-> 300],
       [serial |-> 8, width |-> 600, height |-> 300] >>

SendScenarioConfigure(id) ==
    /\ next_serial <= Len(ScenarioConfigures)
    /\ id < next_id
    /\ LET c == ScenarioConfigures[next_serial]
       IN  queue' = Append(queue, [type |-> "Configure", id |-> id,
                                   serial |-> c.serial,
                                   width |-> c.width, height |-> c.height])
    /\ next_serial' = next_serial + 1
    /\ last' = [op |-> "configure", result |-> None]
    /\ UNCHANGED <<unbound, bound, surface_creators, surface_links, next_id,
                   next_name, configured, created, globals, recvd, acks,
                   kernel, panicked, region,
                   blocking, client, active_creator>>

NextScenario ==
    \/ AnnounceStartup
    \/ \E id \in Ids : SendScenarioConfigure(id)
    \/ HandleEvents
    \/ \E z \in RequestSizes, l \in Layers :
          CreateSurfaceAsync(z.width, z.height, l)

SpecScenario == Init /\ [][NextScenario]_vars

(* ------------------- surface.rs: the property setters ----------------- *)
(* Surface::set_margin: request, record, commit.                           *)
SurfaceSetMargin(surface, margins) ==
    [surface |-> [surface EXCEPT !.properties.margins = margins],
     ops |-> <<Op("set_margin", <<surface.layer_surface, margins.top,
                                  margins.right, margins.bottom,
                                  margins.left>>),
               Op("commit", <<surface.layer_surface>>)>>]

(* Surface::set_layer: request and commit; the layer is not recorded.      *)
SurfaceSetLayer(surface, layer) ==
    [surface |-> surface,
     ops |-> <<Op("set_layer", <<surface.layer_surface, layer>>),
               Op("commit", <<surface.layer_surface>>)>>]

(* A set_anchor that publishes a buffer of the recorded size again.        *)
SurfaceSetAnchor_Reprovision(surface, anchor) ==
    [surface |-> [surface EXCEPT !.properties.anchor = anchor],
     ops |-> <<Op("set_anchor", <<surface.layer_surface, anchor>>)>>
             \o Publish(surface.layer_surface, surface.gpu_surface.width,
                        surface.gpu_surface.height)]

(* Surface::set_anchor: request, record, commit.                           *)
SurfaceSetAnchor(surface, anchor) ==
    [surface |-> [surface EXCEPT !.properties.anchor = anchor],
     ops |-> <<Op("set_anchor", <<surface.layer_surface, anchor>>),
               Op("commit", <<surface.layer_surface>>)>>]

(* Surface::set_keyboard_interactivity: request, record, commit.           *)
SurfaceSetKeyboardInteractivity(surface, keyboard_interactivity) ==
    [surface |-> [surface EXCEPT
                    !.properties.interactivity = keyboard_interactivity],
     ops |-> <<Op("set_keyboard_interactivity",
                  <<surface.layer_surface, keyboard_interactivity>>),
               Op("commit", <<surface.layer_surface>>)>>]

(* Surface::get_properties *)
GetProperties(surface) == surface.properties

(* A call of a setter on the live surface `id`, whose result is `r`.       *)
Setter(name, id, r) ==
    /\ ~panicked
    /\ blocking = None
    /\ id \in DOMAIN surface_links
    /\ surface_links' = [surface_links EXCEPT ![id] = r.surface]
    /\ last' = [op |-> name, result |-> None]
    /\ UNCHANGED <<unbound, bound, surface_creators, next_id, configured,
                   created, globals, recvd, acks, kernel, panicked, region,
                   blocking, client, active_creator>>
    /\ UNCHANGED env

SetMargin(id, margins) ==
    /\ id \in DOMAIN surface_links
    /\ Setter("set_margin", id, SurfaceSetMargin(surface_links[id], margins))

SetLayer(id, layer) ==
    /\ id \in DOMAIN surface_links
    /\ Setter("set_layer", id, SurfaceSetLayer(surface_links[id], layer))

SetAnchor(id, anchor) ==
    /\ id \in DOMAIN surface_links
    /\ Setter("set_anchor", id, SurfaceSetAnchor(surface_links[id], anchor))

SetKeyboardInteractivity(id, keyboard_interactivity) ==
    /\ id \in DOMAIN surface_links
    /\ Setter("set_keyboard_interactivity", id,
              SurfaceSetKeyboardInteractivity(surface_links[id],
                                              keyboard_interactivity))

(* The values a caller passes to the setters.                              *)
MarginInputs == {MarginsDefault,
                 [top |-> 1, right |-> 0, bottom |-> 0, left |-> 0]}
Anchors == {"Top", "Bottom"}
Interactivities == {"None", "Exclusive"}

NextSetters ==
    \/ AnnounceStartup
    \/ \E id \in Ids : SendConfigure(id, MaxDim, MaxDim)
    \/ HandleEvents
    \/ \E l \in Layers : CreateSurfaceAsync(MaxDim, MaxDim, l)
    \/ \E id \in Ids, m \in MarginInputs : SetMargin(id, m)
    \/ \E id \in Ids, l \in Layers : SetLayer(id, l)
    \/ \E id \in Ids, a \in Anchors : SetAnchor(id, a)
    \/ \E id \in Ids, k \in Interactivities :
          SetKeyboardInteractivity(id, k)

SpecSetters == Init /\ [][NextSetters]_vars

(* A caller that creates its surfaces with create_surface_blocking. The    *)
(* loop of the call is running code: its test is taken when it can be.     *)
NextBlocking ==
    \/ AnnounceStartup
    \/ \E id \in Ids : SendConfigure(id, MaxDim, MaxDim)
    \/ HandleEvents
    \/ \E l \in Layers : CreateSurfaceAsync(MaxDim, MaxDim, l)
    \/ \E l \in Layers : CreateSurfaceBlocking(MaxDim, MaxDim, l)
    \/ BlockingReturn
    \/ BlockingHandleEvents

SpecBlocking ==
    Init /\ [][NextBlocking]_vars /\ WF_vars(BlockingReturn)

(* --------------------- lua/entry.rs: the Lua front-end ---------------- *)
(* A method registered with add_method_mut borrows the userdata            *)
(* exclusively for the length of the call; a call made while it is already *)
(* borrowed fails with a Lua error and the method's body is not entered.   *)
MethodMut(c) == IF c.ud THEN "UserDataBorrowMutError" ELSE "entered"

(* RefCell::borrow_mut on client.state: panics when the cell is borrowed.  *)
borrow_mut(c) == IF c.state THEN "panic" ELSE "borrowed"

(* What a call of client:create_surface(..) or client:render() comes to    *)
(* when the client is in state c: both bodies begin with                   *)
(* client.state.borrow_mut().                                              *)
LuaCall(c) ==
    IF MethodMut(c) # "entered" THEN MethodMut(c)
    ELSE IF borrow_mut(c) = "panic" THEN "panic"
    ELSE "ok"

(* The id under which create_surface registers its callback:               *)
(* unwrap_or(ObjectId::null()).                                            *)
NullId == 0
CallbackKey(result) == IF is_some(result) THEN result.v ELSE NullId

(* The callbacks that run in a render: those registered for the surfaces   *)
(* that this render's handle_events made live.                             *)
CallbacksToRun(c, before, after) ==
    c.callbacks \cap (DOMAIN after \ DOMAIN before)

(* WaylandClient::create_surface, called by the script outside a render.   *)
LuaCreateSurface(width, height) ==
    LET r == Setup(St, width, height, "Top", next_id)
    IN  /\ ~panicked
        /\ blocking = None
        /\ LuaCall(client) = "ok"
        /\ is_some(r.result) => next_id <= MaxSurfaces
        /\ Becomes(r.s)
        /\ next_id' = IF is_some(r.result) THEN next_id + 1 ELSE next_id
        /\ client' = [client EXCEPT
                        !.callbacks = @ \cup {CallbackKey(r.result)}]
        /\ last' = [op |-> "lua_create_surface", result |-> r.result]
        /\ UNCHANGED <<env, region, blocking, active_creator>>

(* WaylandClient::render, called by the script outside a render: the       *)
(* state is borrowed for the whole call, handle_events runs, and the       *)
(* callbacks of the surfaces it finalized are due. When handle_events      *)
(* returns Err the call returns it at once.                                *)
LuaRenderBegin ==
    \E n \in 0..Len(queue), err \in BOOLEAN :
      /\ ~panicked
      /\ blocking = None
      /\ LuaCall(client) = "ok"
      /\ err \/ n >= 1
      /\ \E os \in OutcomeSeqs(SubSeq(queue, 1, n)) :
           LET d == Dispatch(St, SubSeq(queue, 1, n), os)
               f == FinalizeReady(d)
           IN  /\ Becomes(IF err THEN d ELSE f)
               /\ client' = IF err \/ d.panicked THEN client
                            ELSE [client EXCEPT
                                    !.ud = TRUE, !.state = TRUE,
                                    !.running = CallbacksToRun(client,
                                                    surface_links,
                                                    f.surface_links)]
      /\ queue' = SubSeq(queue, n + 1, Len(queue))
      /\ last' = [op |-> "lua_render",
                  result |-> IF err THEN None ELSE Some(n)]
      /\ UNCHANGED <<next_id, next_serial, next_name, region, blocking,
                     active_creator>>

(* What the script's callback does with the client.                        *)
Scripts == {"none", "create_surface", "render"}

(* The callback of a surface made live in this render runs: the script's   *)
(* function may call client:create_surface or client:render.               *)
LuaCallback(id, script) ==
    LET result == IF script = "none" THEN "none" ELSE LuaCall(client)
    IN  /\ ~panicked
        /\ id \in client.running
        /\ client' = [client EXCEPT !.running = @ \ {id},
                                    !.callbacks = @ \ {id}]
        /\ panicked' = (result = "panic")
        /\ last' = [op |-> "lua_callback", call |-> script,
                    result |-> result]
        /\ UNCHANGED <<unbound, bound, surface_creators, surface_links,
                       queue, next_id, next_serial, next_name, configured,
                       created, globals, recvd, acks, kernel, region,
                       blocking, active_creator>>

(* render returns: the borrows end.                                        *)
LuaRenderEnd ==
    /\ ~panicked
    /\ client.ud
    /\ client.running = {}
    /\ client' = [client EXCEPT !.ud = FALSE, !.state = FALSE]
    /\ last' = [op |-> "lua_render_end", result |-> None]
    /\ UNCHANGED <<unbound, bound, surface_creators, surface_links,
                   queue, next_id, next_serial, next_name, configured,
                   created, globals, recvd, acks, kernel, panicked, region,
                   blocking, active_creator>>

NextLua ==
    \/ AnnounceStartup
    \/ \E id \in Ids : SendConfigure(id, MaxDim, MaxDim)
    \/ LuaCreateSurface(MaxDim, MaxDim)
    \/ LuaRenderBegin
    \/ \E id \in Ids, script \in Scripts : LuaCallback(id, script)
    \/ LuaRenderEnd

SpecLua == Init /\ [][NextLua]_vars

(* ------------------- main.rs: the standalone binary ------------------- *)
(* The binary has its own WaylandState: unbound, bound, active_creator and *)
(* surface_links, and its own handler. Its Surface has no GPU surface and  *)
(* its buffer has one frame.                                               *)
MainSt == [unbound |-> unbound, bound |-> bound,
           active_creator |-> active_creator,
           surface_links |-> surface_links,
           globals |-> globals, recvd |-> recvd, acks |-> acks,
           kernel |-> kernel, panicked |-> panicked]

MainBecomes(s) ==
    /\ unbound' = s.unbound
    /\ bound' = s.bound
    /\ active_creator' = s.active_creator
    /\ surface_links' = s.surface_links
    /\ globals' = s.globals
    /\ recvd' = s.recvd
    /\ acks' = s.acks
    /\ kernel' = s.kernel
    /\ panicked' = s.panicked

(* SurfaceCreator::default; `by` is history: the configure that            *)
(* provisioned the creator.                                                *)
SurfaceCreatorDefault ==
    [properties |-> SurfacePropertiesDefault, surfaces |-> None,
     buffers |-> None, data |-> None, by |-> None]

(* SurfaceCreator::is_ready *)
creator_is_ready(c) ==
    is_some(c.buffers) /\ is_some(c.surfaces) /\ is_some(c.data)

(* WaylandState::init_creator: None while a creator is active or the       *)
(* protocols are not bound; otherwise a default creator becomes active.    *)
init_creator(s) ==
    IF is_some(s.active_creator) THEN [s |-> s, result |-> None]
    ELSE IF ~is_some(s.bound) THEN [s |-> s, result |-> None]
    ELSE [s |-> [s EXCEPT !.active_creator = Some(SurfaceCreatorDefault)],
          result |-> Some(SurfaceCreatorDefault)]

(* SurfaceCreator::create_surface: the objects, the property requests, the *)
(* commit; `id` is the object id of the new layer surface.                 *)
creator_create_surface(c, width, height, id) ==
    [c EXCEPT !.properties.sizes = Sizes(width, height),
              !.surfaces = Some(id)]

(* SurfaceCreator::finalize *)
creator_finalize(s, c) ==
    IF creator_is_ready(c)
    THEN [s |-> [s EXCEPT !.surface_links =
                    insert(@, c.surfaces.v,
                           [shm |-> c.data.v, surface |-> c.surfaces.v,
                            layer_surface |-> c.surfaces.v,
                            pool |-> c.buffers.v[1],
                            properties |-> c.properties])],
          result |-> Some(c.surfaces.v)]
    ELSE [s |-> IF is_some(c.data)
                THEN [s EXCEPT !.kernel = ShmDrop(@, c.data.v)] ELSE s,
          result |-> None]

(* What the two allocations of one handler run do.                         *)
MainOutcomes == [resize : {"ok", "ftruncate", "mmap"}, new : ShmFailures]

(* main.rs Dispatch<ZwlrLayerSurfaceV1>::event, Configure arm: acknowledge; *)
(* resize the live surface of the proxy's id; then, if a creator is active, *)
(* the protocols are bound and the creator has its surfaces, allocate the   *)
(* creator's region and buffer. The second `if` does not look at the        *)
(* proxy's id.                                                              *)
MainConfigure(s, ev, o) ==
    LET id == ev.id
        width == ev.width
        height == ev.height
        stride == width * 4
        total == height * stride * 1
        ack == <<Op("ack_configure", <<id, ev.serial>>)>>
        live ==
            IF id \notin DOMAIN s.surface_links THEN [s |-> s, ops |-> <<>>]
            ELSE
            LET linked == s.surface_links[id]
                r == ShmResize(linked.shm, total, o.resize)
            IN  IF ~r.ok
                THEN [s |-> [s EXCEPT !.surface_links[id].shm = r.shm],
                      ops |-> <<Op("Shm::resize", <<id, total, FALSE>>)>>]
                ELSE [s |-> [s EXCEPT
                               !.surface_links[id].shm = r.shm,
                               !.surface_links[id].properties.sizes =
                                   Sizes(width, height),
                               !.kernel = ShmResizeSys(@, linked.shm, total,
                                                       o.resize)],
                      ops |-> <<Op("Shm::resize", <<id, total, TRUE>>),
                                Op("create_buffer",
                                   <<id, CreateBuffer(width, height)>>)>>
                              \o Publish(id, width, height)]
        s1 == live.s
        pend ==
            IF ~is_some(s1.active_creator) \/ ~is_some(s1.bound)
            THEN [s |-> s1, ops |-> <<>>]
            ELSE
            LET creator == s1.active_creator.v
            IN  IF ~is_some(creator.surfaces) THEN [s |-> s1, ops |-> <<>>]
                ELSE
                LET surface == creator.surfaces.v
                    shm == ShmNew(total, ev.serial, o.new)
                    sys == ShmNewSys(s1.kernel, total, ev.serial, o.new)
                IN  IF ~is_some(shm)
                    THEN [s |-> [s1 EXCEPT !.kernel = sys.kernel],
                          ops |-> <<Op("Shm::new", <<surface, total, FALSE>>)>>]
                    ELSE
                    LET pool == [fd |-> shm.v.fd, size |-> total]
                        buffer == CreateBuffer(width, height)
                    IN  [s |-> [s1 EXCEPT
                                  !.active_creator =
                                      Some([creator EXCEPT
                                              !.buffers = Some(<<pool, buffer>>),
                                              !.data = shm,
                                              !.by = Some(ev)]),
                                  !.kernel = IF is_some(creator.data)
                                             THEN ShmDrop(sys.kernel,
                                                          creator.data.v)
                                             ELSE sys.kernel],
                         ops |-> <<Op("Shm::new", <<surface, total, TRUE>>),
                                   Op("create_pool",
                                      <<surface, pool.fd, pool.size>>),
                                   Op("create_buffer", <<surface, buffer>>)>>
                                 \o Publish(surface, width, height)]
    IN  [s |-> pend.s, ops |-> ack \o live.ops \o pend.ops]

RECURSIVE MainOutcomeSeqs(_)
MainOutcomeSeqs(evs) ==
    IF evs = <<>> THEN {<<>>}
    ELSE {<<o>> \o r :
            o \in (IF Head(evs).type = "Configure" THEN MainOutcomes
                   ELSE {[resize |-> "ok", new |-> "ok"]}),
            r \in MainOutcomeSeqs(Tail(evs))}

(* blocking_dispatch on the binary's state: the handlers, one by one.      *)
RECURSIVE MainDispatchEvents(_, _, _)
MainDispatchEvents(s, evs, os) ==
    IF evs = <<>> THEN s
    ELSE
    LET ev == Head(evs)
        r == IF ev.type = "Global" THEN RegistryEvent(s, ev)
             ELSE MainConfigure(s, ev, Head(os))
        s1 == [r.s EXCEPT
                 !.globals = IF ev.type = "Global"
                             THEN Append(@, ev.interface) ELSE @,
                 !.recvd = IF ev.type = "Configure"
                           THEN Append(@, <<ev.id, ev.serial>>) ELSE @,
                 !.acks = @ \o AckedIn(r.ops)]
    IN  MainDispatchEvents(s1, Tail(evs), Tail(os))

MainFrame == <<surface_creators, configured, created, region, client>>

(* main.rs create_surface_blocking, up to its loop: init_creator and, when *)
(* it gave a creator, create_surface. The loop runs while a creator is     *)
(* active and not ready, also one left by an earlier call.                 *)
MainCreateSurfaceBlocking(width, height) ==
    LET i == init_creator(MainSt)
        made == is_some(i.result)
        s1 == IF made
              THEN [i.s EXCEPT !.active_creator =
                      Some(creator_create_surface(@.v, width, height,
                                                  next_id))]
              ELSE i.s
    IN  /\ blocking = None
        /\ made => next_id <= MaxSurfaces
        /\ MainBecomes(s1)
        /\ next_id' = IF made THEN next_id + 1 ELSE next_id
        /\ blocking' = IF is_some(s1.active_creator)
                       THEN s1.active_creator.v.surfaces ELSE None
        /\ last' = [op |-> "init_creator", result |-> made]
        /\ UNCHANGED <<env, MainFrame>>

(* The loop of create_surface_blocking: blocking_dispatch(self).ok()?      *)
MainBlockingDispatch ==
    \E n \in 0..Len(queue), err \in BOOLEAN :
      /\ is_some(blocking)
      /\ is_some(active_creator)
      /\ ~creator_is_ready(active_creator.v)
      /\ err \/ n >= 1
      /\ \E os \in MainOutcomeSeqs(SubSeq(queue, 1, n)) :
           MainBecomes(MainDispatchEvents(MainSt, SubSeq(queue, 1, n), os))
      /\ queue' = SubSeq(queue, n + 1, Len(queue))
      /\ blocking' = IF err THEN None ELSE blocking
      /\ last' = IF err
                 THEN [op |-> "create_surface_blocking", result |-> None]
                 ELSE [op |-> "blocking_dispatch", result |-> Some(n)]
      /\ UNCHANGED <<next_id, next_serial, next_name, MainFrame>>

(* After the loop: the creator is taken and finalized.                     *)
MainBlockingReturn ==
    /\ is_some(blocking)
    /\ is_some(active_creator)
    /\ creator_is_ready(active_creator.v)
    /\ LET f == creator_finalize([MainSt EXCEPT !.active_creator = None],
                                 active_creator.v)
       IN  /\ MainBecomes(f.s)
           /\ last' = [op |-> "create_surface_blocking", result |-> f.result]
    /\ blocking' = None
    /\ UNCHANGED <<env, next_id, MainFrame>>

(* main's loop: blocking_dispatch between the calls of the setters.        *)
MainDispatch ==
    \E n \in 1..Len(queue) :
      /\ blocking = None
      /\ \E os \in MainOutcomeSeqs(SubSeq(queue, 1, n)) :
           MainBecomes(MainDispatchEvents(MainSt, SubSeq(queue, 1, n), os))
      /\ queue' = SubSeq(queue, n + 1, Len(queue))
      /\ last' = [op |-> "blocking_dispatch", result |-> Some(n)]
      /\ UNCHANGED <<next_id, next_serial, next_name, blocking, MainFrame>>

NextMain ==
    \/ AnnounceStartup
    \/ \E id \in Ids, w \in {1, MaxDim} : SendConfigure(id, w, MaxDim)
    \/ MainCreateSurfaceBlocking(MaxDim, MaxDim)
    \/ MainBlockingDispatch
    \/ MainBlockingReturn
    \/ MainDispatch

SpecMain == Init /\ [][NextMain]_vars

(* ----------------------- a caller of the memfd crate ------------------ *)
wayland == <<unbound, bound, surface_creators, surface_links, queue, next_id,
             next_serial, next_name, configured, created, globals, recvd,
             acks, panicked, blocking, client, active_creator>>

Lengths == 0..MaxLen

(* The kernel gives a new descriptor the lowest number that is free.       *)
LowestFreeFd(k) ==
    CHOOSE fd \in 1..(Cardinality(k.fds) + 1) :
        fd \notin k.fds /\ \A x \in 1..(fd - 1) : x \in k.fds

(* region = Shm::new(length)?: on Ok the new region takes the place of the *)
(* one held, which is dropped; on Err the one held stays.                  *)
ShmNewCall(length, fail) ==
    LET fd == LowestFreeFd(kernel)
        shm == ShmNew(length, fd, fail)
        sys == ShmNewSys(kernel, length, fd, fail)
    IN  /\ Len(kernel.maps) < MaxMappings
        /\ region' = IF is_some(shm) THEN shm ELSE region
        /\ kernel' = IF is_some(shm) /\ is_some(region)
                     THEN ShmDrop(sys.kernel, region.v) ELSE sys.kernel
        /\ last' = [op |-> "Shm::new", length |-> length, fail |-> fail,
                    result |-> shm, error |-> sys.error, calls |-> sys.calls,
                    before |-> kernel]
        /\ UNCHANGED wayland

(* region.resize(length) *)
ShmResizeCall(length, fail) ==
    /\ is_some(region)
    /\ Len(kernel.maps) < MaxMappings
    /\ LET r == ShmResize(region.v, length, fail)
       IN  /\ region' = Some(r.shm)
           /\ kernel' = ShmResizeSys(kernel, region.v, length, fail)
           /\ last' = [op |-> "Shm::resize", length |-> length,
                       fail |-> fail, result |-> r.ok, before |-> kernel]
    /\ UNCHANGED wayland

(* drop(region) *)
ShmDropCall ==
    /\ is_some(region)
    /\ region' = None
    /\ kernel' = ShmDrop(kernel, region.v)
    /\ last' = [op |-> "drop", before |-> kernel]
    /\ UNCHANGED wayland

NextShm ==
    \/ \E length \in Lengths, fail \in ShmFailures : ShmNewCall(length, fail)
    \/ \E length \in Lengths, fail \in ShmFailures :
          ShmResizeCall(length, fail)
    \/ ShmDropCall

SpecShm == Init /\ [][NextShm]_vars


(* ------------- surface.rs: the size computation, in u32 --------------- *)
(* A u32 is kept as its four bytes, lowest first, and a product as exact   *)
(* as it needs, so that the wrap of a 32-bit multiplication is computed    *)
(* and not assumed away.                                                   *)
MaxShift == 16

(* The dimensions a compositor may acknowledge: small ones and powers of   *)
(* two up to 2^MaxShift.                                                   *)
WideDims == {0, 1, 300, 500} \cup {2^k : k \in 10..MaxShift}

(* The bytes of n, lowest first, for 0 <= n < 2^31.                        *)
ToBytes(n, len) ==
    [k \in 1..len |-> IF k <= 4 THEN (n \div 256^(k - 1)) % 256 ELSE 0]

Pad(x, len) == [k \in 1..len |-> IF k <= Len(x) THEN x[k] ELSE 0]

RECURSIVE SetSum(_, _, _)
SetSum(idx, a, b) ==
    IF idx = {} THEN 0
    ELSE LET p == CHOOSE q \in idx : TRUE
         IN  a[p[1]] * b[p[2]] + SetSum(idx \ {p}, a, b)

RECURSIVE Carry(_, _, _)
Carry(cols, k, c) ==
    IF k > Len(cols) THEN <<>>
    ELSE <<(cols[k] + c) % 256>> \o Carry(cols, k + 1, (cols[k] + c) \div 256)

(* The exact product of two numbers given by their bytes.                  *)
MulExact(a, b) ==
    LET cols == [k \in 1..(Len(a) + Len(b)) |->
                   SetSum({p \in (1..Len(a)) \X (1..Len(b)) :
                             p[1] + p[2] = k + 1}, a, b)]
    IN  Carry(cols, 1, 0)

(* A u32 multiplication in a build without overflow checks: the low four   *)
(* bytes of the product.                                                   *)
wrapping_mul(a, b) == SubSeq(MulExact(a, b), 1, 4)

(* The u32 multiplication overflows.                                       *)
Overflows(a, b) == \E k \in 5..8 : MulExact(a, b)[k] # 0

IsZero(x) == \A k \in 1..Len(x) : x[k] = 0

(* `x as i32` is negative when the top bit of the u32 is set.              *)
NegativeAsI32(x) == x[4] >= 128

(* stride = width * bytes_per_pixel and                                    *)
(* total_buffer_size = height * stride * num_of_frames on u32, after the   *)
(* coercion of 0 to 1. With overflow checks (a debug build) a product that *)
(* does not fit panics; without them (a release build) it wraps.           *)
TotalBufferSizeU32(width, height, checks) ==
    LET w == ToBytes(NonZeroOr1(width), 4)
        h == ToBytes(NonZeroOr1(height), 4)
        bpp == ToBytes(bytes_per_pixel, 4)
        frames == ToBytes(num_of_frames, 4)
        stride == wrapping_mul(w, bpp)
        rows == wrapping_mul(h, stride)
        total == wrapping_mul(rows, frames)
    IN  [panicked |-> checks /\ (\/ Overflows(w, bpp)
                                 \/ Overflows(h, stride)
                                 \/ Overflows(rows, frames)),
         stride |-> stride, total |-> total]

(* The handler of a configure of width x height for a pending surface,     *)
(* every allocation succeeding: what it computes, the length of the region *)
(* it allocates (Shm::new rejects 0) and the size it gives create_pool,    *)
(* which is `total_buffer_size as i32`.                                    *)
ComputeSizes ==
    /\ last.op = "configure"
    /\ \E checks \in BOOLEAN :
         LET c == TotalBufferSizeU32(last.width, last.height, checks)
         IN  last' = [op |-> "total_buffer_size",
                      width |-> last.width, height |-> last.height,
                      checks |-> checks, panicked |-> c.panicked,
                      stride |-> c.stride, total |-> c.total,
                      allocated |-> ~c.panicked /\ ~IsZero(c.total),
                      pool_negative |-> NegativeAsI32(c.total)]
    /\ UNCHANGED <<wayland, region, kernel>>

InitSizes ==
    /\ unbound = UnboundDefault
    /\ bound = None
    /\ surface_creators = EmptyMap
    /\ surface_links = EmptyMap
    /\ queue = <<>>
    /\ next_id = 1
    /\ next_serial = 1
    /\ next_name = 1
    /\ \E width \in WideDims, height \in WideDims :
         last = [op |-> "configure", width |-> width, height |-> height]
    /\ configured = [id \in Ids |-> [gen |-> 0, width |-> 0, height |-> 0,
                                     zero |-> FALSE]]
    /\ created = [id \in Ids |-> [regions |-> 0, pools |-> 0]]
    /\ globals = <<>>
    /\ recvd = <<>>
    /\ acks = <<>>
    /\ kernel = EmptyKernel
    /\ panicked = FALSE
    /\ region = None
    /\ blocking = None
    /\ client = ClientInit
    /\ active_creator = None

NextSizes == ComputeSizes

SpecSizes == InitSizes /\ [][NextSizes]_vars

(* ============================ properties ============================== *)
(* Every configure event the compositor can send next, and the set of     *)
(* values of a sequence.                                                   *)
ConfigureEvents ==
    [type : {"Configure"}, id : Ids, serial : {next_serial},
     width : Dims, height : Dims]
Range(seq) == {seq[k] : k \in 1..Len(seq)}

(* C1: for every configure event, whatever surface it names (pending,      *)
(* live or unknown) and whatever the shared-memory and GPU steps do, the   *)
(* handler's first operation is ack_configure(serial), and it sends no     *)
(* other acknowledgement.                                                  *)
C1_AckOnceAndFirst ==
    \A ev \in ConfigureEvents, o \in Outcomes :
        LET ops == LayerSurfaceConfigure(St, ev, o).ops
        IN  /\ Len(ops) >= 1
            /\ ops[1] = Op("ack_configure", <<ev.id, ev.serial>>)
            /\ \A k \in 2..Len(ops) : ops[k].op # "ack_configure"

(* C1 witness: a configure was handled and acknowledged for a surface that *)
(* is still pending and unprovisioned (its provisioning failed), and one   *)
(* for a live surface.                                                     *)
C1_Witness ==
    /\ Len(acks) = 2
    /\ acks[1][1] \in DOMAIN surface_links
    /\ acks[2][1] \in DOMAIN surface_creators
    /\ ~is_ready(surface_creators[acks[2][1]])
    /\ is_some(bound)

(* C2: the serials acknowledged are the serials received, in order.        *)
C2_AcksFollowReceived == acks = recvd

(* C2 witness: two configures for one surface were acknowledged in order,  *)
(* and the region the surface holds was allocated for the second, so the   *)
(* allocation for the first one failed.                                    *)
C2_Witness ==
    \E id \in DOMAIN surface_links :
        /\ recvd = << <<id, 1>>, <<id, 2>> >>
        /\ acks = recvd
        /\ surface_links[id].shm.fd = 2

C4_SizeRecordedOnlyByConfigure ==
    [][\A id \in DOMAIN surface_links \cap DOMAIN surface_links' :
          /\ last'.op \in {"set_size", "set_properties"} =>
                 surface_links'[id].properties.sizes
                     = surface_links[id].properties.sizes
          /\ surface_links'[id].properties.sizes
                 # surface_links[id].properties.sizes =>
                 /\ last'.op = "handle_events"
                 /\ Len(recvd') > Len(recvd)]_vars

(* C4 witness: set_properties was just called and recorded new margins on  *)
(* a live surface whose recorded size is not one a caller asks for.        *)
C4_Witness ==
    /\ last.op = "set_properties"
    /\ \E id \in DOMAIN surface_links :
           /\ surface_links[id].properties.margins.top = 1
           /\ surface_links[id].properties.sizes \notin RequestSizes


(* C5: the buffer pool of every live surface has, at the compositor, the   *)
(* byte size height*(width*4)*2 of the last acknowledged size.             *)
C5_PoolFollowsAcknowledgement ==
    \A id \in DOMAIN surface_links :
        surface_links[id].pool.size =
            configured[id].height * (configured[id].width * 4) * 2

C7_NoSnapshotNoRequest ==
    [][(last'.op = "create_surface_async" /\ ~is_some(bound)) =>
          /\ last'.result = None
          /\ UNCHANGED <<unbound, bound, surface_creators, surface_links,
                         next_id, created, configured>>
          /\ \A z \in RequestSizes, l \in Layers :
                 Setup(St, z.width, z.height, l, next_id).ops = <<>>]_vars

(* C7 witness: a request just returned None, two of the three globals      *)
(* being bound.                                                            *)
C7_Witness ==
    /\ last.op = "create_surface_async"
    /\ last.result = None
    /\ Len(globals) = 2
    /\ is_some(unbound.compositor) /\ is_some(unbound.shm)

(* The number of announcements of an interface handled so far.             *)
Announcements(interface) ==
    Cardinality({k \in 1..Len(globals) : globals[k] = interface})

(* C8: the snapshot is unavailable until all three required globals were   *)
(* announced, and available once each was announced once, in any order; a  *)
(* request returns None before that and a pending surface's id after.      *)
C8_SnapshotAfterThird ==
    LET each_once == \A i \in Required : Announcements(i) = 1
    IN  /\ ~(Required \subseteq Range(globals)) => ~is_some(bound)
        /\ each_once => is_some(bound)
        /\ last.op = "create_surface_async" =>
              /\ ~(Required \subseteq Range(globals)) => last.result = None
              /\ each_once =>
                     /\ is_some(last.result)
                     /\ last.result.v \in DOMAIN surface_creators

(* C8 witness: the three globals came with wl_shm last, and a request      *)
(* then returned an id.                                                    *)
C8_Witness ==
    /\ globals = <<"zwlr_layer_shell_v1", "wl_compositor", "wl_shm">>
    /\ last.op = "create_surface_async"
    /\ is_some(last.result)

(* C9: once available, the snapshot stays available and unchanged.         *)
C9_SnapshotMonotonic == [][is_some(bound) => bound' = bound]_vars

(* C10: while pending, a surface gets at most one region and at most one   *)
(* buffer pool.                                                            *)
C10_OnePoolWhilePending ==
    \A id \in Ids : created[id].regions <= 1 /\ created[id].pools <= 1

(* ---------------------------------------------------------------------- *)
(* An outcome in which the provisioning of a pending surface fails.        *)
Failing(o) == o.shm # "ok" \/ ~o.gpu

(* The requests that make or publish a buffer.                             *)
ProvisioningOps ==
    {"create_pool", "create_buffer", "attach", "damage", "commit"}

(* C11: a provisioning attempt that fails leaves no partial state. When    *)
(* Shm::new or GpuSurface::new fails in the handling of a configure for a  *)
(* pending surface, the handler makes no pool and no buffer, sends no      *)
(* attach, damage or commit, and leaves the pending surface as it was; a   *)
(* pending surface for which no provisioning has completed has no buffers, *)
(* no data and no gpu_surface, and is not ready.                           *)
C11_FailureLeavesNoPartialState ==
    /\ \A ev \in ConfigureEvents, o \in Outcomes :
         (ev.id \in DOMAIN surface_creators /\ is_some(bound) /\ Failing(o))
         => LET r == LayerSurfaceConfigure(St, ev, o)
            IN  /\ \A i \in DOMAIN r.ops : r.ops[i].op \notin ProvisioningOps
                /\ r.s.surface_creators = surface_creators
                /\ r.s.surface_links = surface_links
    /\ \A id \in DOMAIN surface_creators :
         configured[id].gen = 0
         => /\ surface_creators[id].buffers = None
            /\ surface_creators[id].data = None
            /\ surface_creators[id].gpu_surface = None
            /\ ~is_ready(surface_creators[id])

(* A pending surface for which a region was made and then the GPU surface  *)
(* failed: it was acknowledged and is still as setup left it.              *)
C11_Witness ==
    \E id \in DOMAIN surface_creators :
        /\ created[id].regions >= 1
        /\ configured[id].gen = 0
        /\ \E i \in DOMAIN acks : acks[i][1] = id
        /\ ~is_ready(surface_creators[id])

(* ---------------------------------------------------------------------- *)
(* C12: when GpuSurface::new fails in the handling of a configure, the     *)
(* region made for that attempt is released before the handler returns:    *)
(* its descriptor is closed and its mapping unmapped, so the process holds *)
(* what it held before.                                                    *)
C12_RegionReleasedOnGpuFailure ==
    \A ev \in ConfigureEvents :
        (ev.id \in DOMAIN surface_creators /\ is_some(bound))
        => LET r == LayerSurfaceConfigure(St, ev,
                                          [shm |-> "ok", gpu |-> FALSE])
           IN  /\ r.s.kernel.fds = kernel.fds
               /\ r.s.kernel.maps = kernel.maps

(* ---------------------------------------------------------------------- *)
(* C13: no layer-surface event panics. A Closed event for a surface        *)
(* removes it from surface_creators and surface_links, and the process     *)
(* keeps running.                                                          *)
C13_ClosedNeverPanics ==
    /\ ~panicked
    /\ \A id \in Ids :
         id < next_id
         => LET r == LayerSurfaceEvent(St, [type |-> "Closed", id |-> id],
                                       NoOutcome)
            IN  /\ ~r.s.panicked
                /\ id \notin DOMAIN r.s.surface_creators
                /\ id \notin DOMAIN r.s.surface_links

(* ---------------------------------------------------------------------- *)
(* C14: a pending surface that is ready has its gpu_surface, so the        *)
(* finalization of handle_events makes every ready surface live: it        *)
(* lands in surface_links and its region is not dropped.                   *)
C14_ReadyHasGpuSurface ==
    \A id \in DOMAIN surface_creators :
        is_ready(surface_creators[id])
        => /\ is_some(surface_creators[id].gpu_surface)
           /\ LET f == FinalizeReady(St)
              IN  /\ id \in DOMAIN f.surface_links
                  /\ f.surface_links[id].shm = surface_creators[id].data.v
                  /\ f.kernel = kernel

(* A ready pending surface that waits for its finalization.                *)
C14_Witness ==
    \E id \in DOMAIN surface_creators :
        /\ is_ready(surface_creators[id])
        /\ id \in DOMAIN FinalizeReady(St).surface_links

(* ---------------------------------------------------------------------- *)
(* The region of a surface, live or pending.                               *)
RegionOf(id) ==
    IF id \in DOMAIN surface_links THEN Some(surface_links[id].shm)
    ELSE IF id \in DOMAIN surface_creators THEN surface_creators[id].data
    ELSE None

(* C15 as it is stated: the configure of serial 7 with 500x300, on a fresh *)
(* pending surface, allocates a region of 1,800,000 bytes with a stride of *)
(* 2000, acknowledges serial 7, and makes the surface ready with its first *)
(* configuration.                                                          *)
C15_AsStated ==
    /\ \A id \in DOMAIN surface_creators :
         (is_some(bound) /\ configured[id].gen = 0)
         => LET ev == [type |-> "Configure", id |-> id, serial |-> 7,
                       width |-> 500, height |-> 300]
                r == LayerSurfaceConfigure(St, ev, NoOutcome)
                after == r.s.surface_creators[id]
            IN  /\ Head(r.ops) = Op("ack_configure", <<id, 7>>)
                /\ Op("Shm::new", <<id, 1800000, TRUE>>) \in Range(r.ops)
                /\ is_ready(after)
                /\ DataLen(after.data.v) = 1800000
                /\ after.buffers.v[2].stride = 2000
                /\ r.s.configured[id].gen = 1
    /\ \A id \in Ids :
         (configured[id].gen = 1 /\ configured[id].width = 500)
         => /\ is_some(RegionOf(id))
            /\ DataLen(RegionOf(id).v) = 1800000
            /\ <<id, 7>> \in Range(acks)

(* C15: the configure of serial 7 with 500x300, on a fresh pending         *)
(* surface, allocates a region of 300*2000*2 = 1,200,000 bytes with a      *)
(* stride of 2000 and two frames, acknowledges serial 7, and makes the     *)
(* surface ready with its first configuration.                             *)
C15_First500x300 ==
    /\ \A id \in DOMAIN surface_creators :
         (is_some(bound) /\ configured[id].gen = 0)
         => LET ev == [type |-> "Configure", id |-> id, serial |-> 7,
                       width |-> 500, height |-> 300]
                r == LayerSurfaceConfigure(St, ev, NoOutcome)
                after == r.s.surface_creators[id]
            IN  /\ Head(r.ops) = Op("ack_configure", <<id, 7>>)
                /\ Op("Shm::new", <<id, 1200000, TRUE>>) \in Range(r.ops)
                /\ is_ready(after)
                /\ DataLen(after.data.v) = 1200000
                /\ after.buffers.v[2].stride = 2000
                /\ r.s.configured[id].gen = 1
    /\ \A id \in Ids :
         (configured[id].gen = 1 /\ configured[id].width = 500)
         => /\ is_some(RegionOf(id))
            /\ DataLen(RegionOf(id).v) = 1200000
            /\ <<id, 7>> \in Range(acks)

(* A live surface after the configure of serial 7 alone.                   *)
C15_Witness ==
    \E id \in DOMAIN surface_links :
        /\ configured[id] = [gen |-> 1, width |-> 500, height |-> 300,
                             zero |-> FALSE]
        /\ DataLen(surface_links[id].shm) = 1200000
        /\ acks = << <<id, 7>> >>

(* ---------------------------------------------------------------------- *)
(* C16: after the second configure, of serial 8 with 600x300, the surface  *)
(* has a region of exactly 300*2400*2 bytes, serial 8 is acknowledged,     *)
(* and no mapping of the region's object with the old size remains.        *)
C16_SecondConfigureReleasesOld ==
    \A id \in DOMAIN surface_links :
        (configured[id].gen = 2 /\ configured[id].width = 600)
        => /\ DataLen(surface_links[id].shm) = 300 * 2400 * 2
           /\ <<id, 8>> \in Range(acks)
           /\ \A i \in DOMAIN kernel.maps :
                kernel.maps[i].fd = surface_links[id].shm.fd
                => kernel.maps[i].length = DataLen(surface_links[id].shm)

(* ---------------------------------------------------------------------- *)
(* What one run of the Configure handler does to the generations and to   *)
(* the two maps.                                                           *)
C17_Handler ==
    \A ev \in ConfigureEvents, o \in Outcomes :
        LET r == LayerSurfaceConfigure(St, ev, o)
            completes ==
                \/ /\ ev.id \in DOMAIN surface_links
                   /\ o.shm \notin {"ftruncate", "mmap"}
                \/ /\ ev.id \in DOMAIN surface_creators
                   /\ is_some(bound)
                   /\ ~Failing(o)
        IN  /\ \A id \in Ids \ {ev.id} : r.s.configured[id] = configured[id]
            /\ r.s.configured[ev.id].gen =
                   IF completes THEN configured[ev.id].gen + 1
                   ELSE configured[ev.id].gen
            /\ DOMAIN r.s.surface_links = DOMAIN surface_links
            /\ DOMAIN r.s.surface_creators = DOMAIN surface_creators

(* What one step does to a surface's place and generation.                 *)
C17_Step ==
    \A id \in Ids :
        /\ id \in DOMAIN surface_links
           => id \in DOMAIN surface_links' /\ configured[id].gen >= 1
        /\ id \in DOMAIN surface_links' => id \notin DOMAIN surface_creators'
        /\ id \in DOMAIN surface_creators
           => id \in DOMAIN surface_creators' \cup DOMAIN surface_links'
        /\ configured'[id].gen >= configured[id].gen
        /\ configured[id].gen >= 1 => configured'[id].gen >= 1

(* C17: the lifecycle of a surface only moves forward. A handled configure *)
(* whose provisioning completes raises the generation by exactly one (the  *)
(* first one to 1), one whose provisioning fails leaves it; a surface that *)
(* is live has a generation of at least 1, stays live and is not pending;  *)
(* a pending surface stays pending or becomes live; no generation falls.   *)
C17_LifecycleForward == [](C17_Handler) /\ [][C17_Step]_vars

(* A live surface in its second configuration.                             *)
C17_Witness ==
    \E id \in DOMAIN surface_links :
        /\ configured[id].gen = 2
        /\ id \notin DOMAIN surface_creators
        /\ Len(recvd) = 2

(* ---------------------------------------------------------------------- *)
(* C18: for every length > 0, when the OS primitives succeed, Shm::new     *)
(* returns a region whose data has exactly `length` bytes, whatever the    *)
(* process allocated and dropped before.                                   *)
C18_NewGivesLength ==
    /\ \A length \in Lengths \ {0} :
         LET shm == ShmNew(length, LowestFreeFd(kernel), "ok")
         IN  is_some(shm) /\ DataLen(shm.v) = length
    /\ (last.op = "Shm::new" /\ last.length > 0 /\ last.fail = "ok")
       => /\ is_some(last.result)
          /\ DataLen(last.result.v) = last.length
          /\ region = last.result

(* The last of MaxMappings allocations that succeeded one after another.   *)
C18_Witness ==
    /\ last.op = "Shm::new"
    /\ is_some(last.result)
    /\ DataLen(last.result.v) = MaxLen
    /\ Len(kernel.maps) = MaxMappings
    /\ Len(last.before.maps) = MaxMappings - 1

(* ---------------------------------------------------------------------- *)
(* C19: Shm::new(0) fails with InvalidInput before any OS call: nothing is *)
(* created, truncated or mapped.                                           *)
C19_ZeroLengthRejectedFirst ==
    (last.op = "Shm::new" /\ last.length = 0)
    => /\ ~is_some(last.result)
       /\ last.error = "InvalidInput"
       /\ last.calls = <<>>
       /\ kernel = last.before

(* Shm::new(0) with every OS primitive ready to succeed.                   *)
C19_Witness ==
    /\ last.op = "Shm::new"
    /\ last.length = 0
    /\ last.fail = "ok"
    /\ last.error = "InvalidInput"

(* ---------------------------------------------------------------------- *)
(* C20: a Shm::new that fails at memfd_create, at ftruncate or at mmap     *)
(* leaves no descriptor of its own open: the descriptors the process holds *)
(* are those it held before the call, and a descriptor the call created    *)
(* was closed by it.                                                       *)
C20_FailedNewClosesDescriptor ==
    (last.op = "Shm::new" /\ last.length > 0 /\ last.fail # "ok")
    => /\ ~is_some(last.result)
       /\ kernel.fds = last.before.fds
       /\ kernel.maps = last.before.maps
       /\ (\E i \in DOMAIN last.calls : last.calls[i] = "ftruncate")
          => last.calls[Len(last.calls)] = "close"

(* A Shm::new that failed at mmap, after it made and truncated the object, *)
(* while the caller holds another region.                                  *)
C20_Witness ==
    /\ last.op = "Shm::new"
    /\ last.fail = "mmap"
    /\ last.length > 0
    /\ last.calls = <<"memfd_create", "ftruncate", "mmap", "close">>
    /\ is_some(region)
    /\ kernel.fds = {region.v.fd}

(* ---------------------------------------------------------------------- *)
(* C21: after a Shm::resize(new_length) that returns Ok, the data has      *)
(* exactly new_length bytes and the descriptor of the region is the one it *)
(* had before the call.                                                    *)
C21_ResizeGivesLengthKeepsFd ==
    /\ \A length \in Lengths, fail \in ShmFailures :
         is_some(region)
         => LET r == ShmResize(region.v, length, fail)
            IN  r.ok => /\ DataLen(r.shm) = length
                        /\ r.shm.fd = region.v.fd
    /\ (last.op = "Shm::resize" /\ last.result)
       => /\ is_some(region)
          /\ DataLen(region.v) = last.length
          /\ region.v.fd \in last.before.fds

(* A region after a resize that changed its length: the kernel has a       *)
(* mapping of its descriptor with another length.                          *)
C21_Witness ==
    /\ last.op = "Shm::resize"
    /\ last.result
    /\ DataLen(region.v) = last.length
    /\ \E i \in DOMAIN kernel.maps :
         /\ kernel.maps[i].fd = region.v.fd
         /\ kernel.maps[i].length # DataLen(region.v)

(* ---------------------------------------------------------------------- *)
(* C22: a Shm::resize that returns an error leaves the region as it was:   *)
(* the data has the length it had, and the object behind the mapping still *)
(* has at least that size.                                                 *)
C22_FailedResizeLeavesRegion ==
    \A length \in Lengths, fail \in ShmFailures :
        (is_some(region) /\ region.v.object_size >= DataLen(region.v))
        => LET r == ShmResize(region.v, length, fail)
           IN  ~r.ok => /\ DataLen(r.shm) = DataLen(region.v)
                        /\ r.shm.object_size >= DataLen(r.shm)

(* ---------------------------------------------------------------------- *)
(* C23: the length of a region is greater than 0, after Shm::new and after *)
(* any resize, resize(0) included.                                         *)
C23_LengthPositive ==
    /\ is_some(region) => DataLen(region.v) > 0
    /\ \A length \in Lengths, fail \in ShmFailures :
         is_some(region) => DataLen(ShmResize(region.v, length, fail).shm) > 0

(* A region that went through resize(0) with no OS failure injected.       *)
C23_Witness ==
    /\ last.op = "Shm::resize"
    /\ last.length = 0
    /\ last.fail = "ok"
    /\ ~last.result
    /\ DataLen(region.v) > 0

(* ---------------------------------------------------------------------- *)
(* C24: each of set_margin, set_anchor, set_keyboard_interactivity and     *)
(* set_layer sends its request, records the new value in the properties    *)
(* of the surface, so that get_properties returns it, and then commits.    *)
C24_SettersRecordAndCommit ==
    \A id \in DOMAIN surface_links :
        LET surface == surface_links[id]
            commit == Op("commit", <<id>>)
        IN  /\ \A m \in MarginInputs :
                 LET r == SurfaceSetMargin(surface, m)
                 IN  /\ r.ops = <<Op("set_margin", <<id, m.top, m.right,
                                                     m.bottom, m.left>>),
                                  commit>>
                     /\ GetProperties(r.surface).margins = m
            /\ \A a \in Anchors :
                 LET r == SurfaceSetAnchor(surface, a)
                 IN  /\ r.ops = <<Op("set_anchor", <<id, a>>), commit>>
                     /\ GetProperties(r.surface).anchor = a
            /\ \A k \in Interactivities :
                 LET r == SurfaceSetKeyboardInteractivity(surface, k)
                 IN  /\ r.ops = <<Op("set_keyboard_interactivity", <<id, k>>),
                                  commit>>
                     /\ GetProperties(r.surface).interactivity = k
            /\ \A l \in Layers :
                 LET r == SurfaceSetLayer(surface, l)
                 IN  /\ r.ops = <<Op("set_layer", <<id, l>>), commit>>
                     /\ GetProperties(r.surface).layer = l

(* ---------------------------------------------------------------------- *)
(* C25 as it is stated: once a configure whose allocations succeeded has   *)
(* been dispatched for a surface, by whatever call of handle_events, its   *)
(* id is a key of surface_links.                                           *)
C25_AsStated ==
    \A id \in Ids : configured[id].gen >= 1 => id \in DOMAIN surface_links

(* What holds after the calls return.                                      *)
C25_Returns ==
    /\ (last.op = "handle_events" /\ is_some(last.result))
       => \A id \in Ids :
            configured[id].gen >= 1 => id \in DOMAIN surface_links
    /\ (last.op = "create_surface_blocking" /\ is_some(last.result))
       => last.result.v \in DOMAIN surface_links
    /\ is_some(blocking)
       => blocking.v \in DOMAIN surface_creators \cup DOMAIN surface_links

(* C25: once a configure whose allocations succeeded has been dispatched   *)
(* for a requested surface, its id is a key of surface_links after every   *)
(* handle_events that returns Ok; create_surface_blocking returns Some(id) *)
(* only when surface_links contains the id, and it does return Some(id)    *)
(* once such a configure has been dispatched for the surface it waits for. *)
C25_BlockingCompletes ==
    /\ []C25_Returns
    /\ \A id \in Ids :
         (blocking = Some(id) /\ configured[id].gen >= 1)
         ~> (last = [op |-> "create_surface_blocking", result |-> Some(id)])

(* create_surface_blocking has returned the id of a surface that is live.  *)
C25_Witness ==
    /\ last.op = "create_surface_blocking"
    /\ is_some(last.result)
    /\ last.result.v \in DOMAIN surface_links
    /\ configured[last.result.v].gen >= 1
    /\ blocking = None

(* ---------------------------------------------------------------------- *)
(* C26: the size recorded in the properties of a live surface is the       *)
(* coerced size of the last configure whose provisioning completed for it, *)
(* from the finalization on, and not the size asked for at creation.       *)
C26_RecordedSizeIsConfigured ==
    \A id \in DOMAIN surface_links :
        GetProperties(surface_links[id]).sizes =
            Sizes(configured[id].width, configured[id].height)

(* ---------------------------------------------------------------------- *)
(* C27: a surface id is a key of at most one of surface_creators and       *)
(* surface_links, and every key is an id that a request returned; the      *)
(* finalization takes each ready surface out of surface_creators and puts  *)
(* it in surface_links under the same id, and leaves the others.           *)
C27_ExclusiveOwnership ==
    /\ DOMAIN surface_creators \cap DOMAIN surface_links = {}
    /\ \A id \in DOMAIN surface_creators \cup DOMAIN surface_links :
         id < next_id
    /\ LET f == FinalizeReady(St)
       IN  /\ DOMAIN f.surface_creators \cap DOMAIN f.surface_links = {}
           /\ DOMAIN f.surface_creators \cup DOMAIN f.surface_links
                 = DOMAIN surface_creators \cup DOMAIN surface_links
           /\ \A id \in DOMAIN surface_creators :
                IF is_ready(surface_creators[id])
                THEN /\ id \in DOMAIN f.surface_links
                     /\ f.surface_links[id].layer_surface = id
                ELSE /\ id \in DOMAIN f.surface_creators
                     /\ f.surface_creators[id] = surface_creators[id]

(* One surface was finalized under its id while another is pending.        *)
C27_Witness ==
    /\ last.op = "handle_events"
    /\ is_some(last.result)
    /\ \E a \in DOMAIN surface_links, b \in DOMAIN surface_creators :
         /\ a # b
         /\ surface_links[a].layer_surface = a
         /\ surface_creators[b].layer_surface = b

(* ---------------------------------------------------------------------- *)
(* C28: a request that succeeds creates the surface and the layer surface, *)
(* sends set_margin, set_anchor, set_keyboard_interactivity and set_size   *)
(* with the values asked for, commits after all of them, allocates         *)
(* nothing, and registers the pending surface under the id it returns,     *)
(* with buffers, data and gpu_surface absent.                              *)
C28_RequestSequence ==
    \A z \in RequestSizes, l \in Layers :
        is_some(bound)
        => LET id == next_id
               r == Setup(St, z.width, z.height, l, id)
               p == SurfacePropertiesDefault
           IN  /\ r.result = Some(id)
               /\ r.ops =
                    << Op("create_surface", <<id>>),
                       Op("get_layer_surface", <<id, l, BUFFER_NAMESPACE>>),
                       Op("set_margin", <<id, p.margins.top, p.margins.right,
                                          p.margins.bottom, p.margins.left>>),
                       Op("set_anchor", <<id, p.anchor>>),
                       Op("set_keyboard_interactivity",
                          <<id, p.interactivity>>),
                       Op("set_size", <<id, z.width, z.height>>),
                       Op("commit", <<id>>) >>
               /\ r.s.kernel = kernel
               /\ DOMAIN r.s.surface_creators =
                     DOMAIN surface_creators \cup {id}
               /\ r.s.surface_links = surface_links
               /\ r.s.surface_creators[id].buffers = None
               /\ r.s.surface_creators[id].data = None
               /\ r.s.surface_creators[id].gpu_surface = None
               /\ r.s.surface_creators[id].properties.sizes = z

(* A request has just returned the id of a new pending surface.            *)
C28_Witness ==
    /\ last.op = "create_surface_async"
    /\ is_some(last.result)
    /\ last.result.v \in DOMAIN surface_creators
    /\ surface_creators[last.result.v].data = None
    /\ surface_creators[last.result.v].properties.sizes
          = Sizes(MaxDim, MaxDim)

(* ---------------------------------------------------------------------- *)
(* The names of the operations of a handler run, in order.                 *)
RECURSIVE OpNames(_)
OpNames(ops) ==
    IF ops = <<>> THEN <<>> ELSE <<Head(ops).op>> \o OpNames(Tail(ops))

(* The sequence `want` occurs in `have` in that order, not necessarily     *)
(* side by side.                                                           *)
RECURSIVE InOrder(_, _)
InOrder(want, have) ==
    IF want = <<>> THEN TRUE
    ELSE IF have = <<>> THEN FALSE
    ELSE IF Head(want) = Head(have) THEN InOrder(Tail(want), Tail(have))
    ELSE InOrder(want, Tail(have))

(* A configure that this state handles to completion.                      *)
Completes(ev, o) ==
    \/ ev.id \in DOMAIN surface_links /\ o.shm \notin {"ftruncate", "mmap"}
    \/ ev.id \in DOMAIN surface_creators /\ is_some(bound) /\ ~Failing(o)

(* The buffer attached and the rectangle damaged are those of the coerced  *)
(* dimensions: offset 0, stride width*4, damage (0, 0, width, height).     *)
BufferAsAcknowledged(ev, ops) ==
    LET width == NonZeroOr1(ev.width)
        height == NonZeroOr1(ev.height)
        buffer == [offset |-> 0, width |-> width, height |-> height,
                   stride |-> width * 4, format |-> "Argb8888"]
        args(name) == {ops[k].args : k \in {j \in 1..Len(ops) : ops[j].op = name}}
    IN  /\ args("create_buffer") = {<<ev.id, buffer>>}
        /\ args("attach") = {<<ev.id, buffer, 0, 0>>}
        /\ args("damage") = {<<ev.id, 0, 0, width, height>>}

C30_FailedResizeLeavesSurface ==
    \A ev \in ConfigureEvents, o \in Outcomes :
        (ev.id \in DOMAIN surface_links /\ o.shm \in {"ftruncate", "mmap"})
        => LET r == LayerSurfaceConfigure(St, ev, o)
               before == surface_links[ev.id]
               after == r.s.surface_links[ev.id]
           IN  /\ OpNames(r.ops) = <<"ack_configure", "Shm::resize">>
               /\ AckedIn(r.ops) = << <<ev.id, ev.serial>> >>
               /\ after.properties = before.properties
               /\ after.gpu_surface = before.gpu_surface
               /\ after.pool = before.pool
               /\ DataLen(after.shm) = DataLen(before.shm)
               /\ r.s.configured = configured

(* A live surface whose second configure was acknowledged and whose resize *)
(* failed at the mapping, after the object was truncated.                  *)
C30_Witness ==
    \E id \in DOMAIN surface_links :
        /\ acks = << <<id, 1>>, <<id, 2>> >>
        /\ configured[id].gen = 1
        /\ surface_links[id].shm.object_size # DataLen(surface_links[id].shm)
        /\ surface_links[id].gpu_surface =
              Sizes(configured[id].width, configured[id].height)

(* ---------------------------------------------------------------------- *)
(* What a setter may not touch: the region, the pool, the GPU surface and  *)
(* the recorded size of the surface; and it creates and attaches no buffer.*)
NoReprovisioning(surface, r) ==
    /\ r.surface.shm = surface.shm
    /\ r.surface.pool = surface.pool
    /\ r.surface.gpu_surface = surface.gpu_surface
    /\ r.surface.properties.sizes = surface.properties.sizes
    /\ \A k \in 1..Len(r.ops) :
          r.ops[k].op \notin {"Shm::new", "Shm::resize", "create_pool",
                              "create_buffer", "attach", "damage",
                              "GpuSurface::new", "GpuSurface::resize"}

(* C31: set_margin, set_anchor, set_keyboard_interactivity and set_layer   *)
(* do not re-provision: each leaves the region, the buffer pool, the GPU   *)
(* surface and the recorded size of the surface as they were, and creates  *)
(* or attaches no buffer.                                                  *)
C31_SettersDoNotReprovision ==
    \A id \in DOMAIN surface_links :
        LET surface == surface_links[id]
        IN  /\ \A m \in MarginInputs :
                 NoReprovisioning(surface, SurfaceSetMargin(surface, m))
            /\ \A a \in Anchors :
                 NoReprovisioning(surface, SurfaceSetAnchor(surface, a))
            /\ \A k \in Interactivities :
                 NoReprovisioning(surface,
                     SurfaceSetKeyboardInteractivity(surface, k))
            /\ \A l \in Layers :
                 NoReprovisioning(surface, SurfaceSetLayer(surface, l))

(* A setter has just changed a recorded property of a provisioned surface. *)
C31_Witness ==
    /\ last.op = "set_anchor"
    /\ \E id \in DOMAIN surface_links :
         /\ surface_links[id].properties.anchor = "Bottom"
         /\ surface_links[id].properties.margins.top = 1
         /\ surface_links[id].properties.interactivity = "Exclusive"
         /\ DataLen(surface_links[id].shm) = TotalBufferSize(MaxDim, MaxDim)

(* ---------------------------------------------------------------------- *)
(* The field of `unbound` that holds the handle of a required interface.   *)
HandleOf(u, interface) ==
    CASE interface = "wl_compositor" -> u.compositor
      [] interface = "wl_shm" -> u.shm
      [] interface = "zwlr_layer_shell_v1" -> u.layer

(* C32: recording a capability is idempotent per name. While the snapshot  *)
(* is not bound, the announcement of a required interface whose handle is  *)
(* already recorded leaves that handle as it was, the first one recorded,  *)
(* and leaves the snapshot unavailable as it was.                          *)
C32_RecordIdempotent ==
    \A i \in Required :
        (~is_some(bound) /\ is_some(HandleOf(unbound, i)))
        => LET ev == [type |-> "Global", name |-> next_name, interface |-> i]
               r == RegistryEvent(St, ev)
           IN  /\ HandleOf(r.s.unbound, i) = HandleOf(unbound, i)
               /\ is_some(r.s.bound) = is_some(bound)

(* ---------------------------------------------------------------------- *)
(* C33: a region holds exactly one mapping while it lives and none after   *)
(* it is dropped: the process has one mapping when the caller holds a      *)
(* region and no mapping when it holds none, whatever the number of        *)
(* resizes and of regions made and dropped.                                *)
C33_OneMappingPerRegion ==
    Len(kernel.maps) = IF is_some(region) THEN 1 ELSE 0

(* ---------------------------------------------------------------------- *)
(* C38: the length of data() is the size to which the object behind the    *)
(* region was last truncated, after Shm::new and after any resize, whether *)
(* it succeeded or failed.                                                 *)
C38_LengthIsObjectSize ==
    is_some(region) => DataLen(region.v) = region.v.object_size

(* ---------------------------------------------------------------------- *)
(* The calls that pump the event queue, and how deep the dispatch is nested *)
(* while a handler that made the calls `ops` runs: the dispatch that runs   *)
(* the handler, and one more for every pump the handler starts itself.      *)
DispatchCalls == {"blocking_dispatch", "roundtrip", "dispatch_pending",
                  "handle_events", "create_surface_blocking"}

DispatchDepth(ops) ==
    1 + Cardinality({k \in 1..Len(ops) : ops[k].op \in DispatchCalls})

(* The layer-surface events the compositor can send next.                  *)
LayerSurfaceEvents ==
    ConfigureEvents \cup [type : {"Closed"}, id : Ids]

(* C34: no handler re-enters the dispatch. Whatever event the registry     *)
(* handler or the layer-surface handler is given, and whatever the         *)
(* allocations do, it starts no blocking dispatch and no roundtrip, so the *)
(* dispatch is never nested deeper than one.                               *)
C34_NoReentrantDispatch ==
    /\ \A i \in Interfaces :
         DispatchDepth(RegistryEvent(St, [type |-> "Global",
                                          name |-> next_name,
                                          interface |-> i]).ops) = 1
    /\ \A ev \in LayerSurfaceEvents, o \in Outcomes :
         DispatchDepth(LayerSurfaceEvent(St, ev, o).ops) = 1

(* One dispatch ran a registry handler and, for two surfaces, the          *)
(* layer-surface handler.                                                  *)
C34_Witness ==
    /\ last.op = "handle_events"
    /\ Len(globals) = 3
    /\ Len(recvd) = 2
    /\ recvd[1][1] # recvd[2][1]
    /\ acks = recvd
    /\ queue = <<>>

(* ---------------------------------------------------------------------- *)
(* The entries of a map other than that of `id`.                           *)
Others(map, id) == [x \in DOMAIN map \ {id} |-> map[x]]

(* C36: a configure addressed to a layer surface changes the provisioning  *)
(* state of that surface only. Every other entry of surface_creators and   *)
(* of surface_links, and the snapshot, are as they were; a configure for   *)
(* an id in neither map changes nothing and only sends the acknowledgement.*)
C36_ConfigureTouchesItsSurfaceOnly ==
    \A ev \in ConfigureEvents, o \in Outcomes :
        LET r == LayerSurfaceConfigure(St, ev, o)
        IN  /\ Others(r.s.surface_creators, ev.id)
                 = Others(surface_creators, ev.id)
            /\ Others(r.s.surface_links, ev.id) = Others(surface_links, ev.id)
            /\ r.s.bound = bound
            /\ r.s.unbound = unbound
            /\ \A id \in Ids \ {ev.id} : r.s.configured[id] = configured[id]
            /\ ev.id \notin DOMAIN surface_creators \cup DOMAIN surface_links
               => /\ r.s.surface_creators = surface_creators
                  /\ r.s.surface_links = surface_links
                  /\ r.s.kernel = kernel
                  /\ r.s.configured = configured
                  /\ r.ops = <<Op("ack_configure", <<ev.id, ev.serial>>)>>

(* A surface was provisioned and resized by its two configures while the   *)
(* other surface, requested before them, stayed pending and untouched.     *)
C36_Witness ==
    \E a \in DOMAIN surface_links, b \in DOMAIN surface_creators :
        /\ recvd = << <<a, 1>>, <<a, 2>> >>
        /\ configured[a].gen = 2
        /\ configured[b].gen = 0
        /\ surface_creators[b].data = None
        /\ created[b].regions = 0

(* ---------------------------------------------------------------------- *)
(* height * width * 4 * 2 as a number, exactly.                            *)
ExactSize(width, height) ==
    MulExact(MulExact(ToBytes(NonZeroOr1(height), 4),
                      ToBytes(NonZeroOr1(width), 4)),
             ToBytes(bytes_per_pixel * num_of_frames, 1))

(* C37: for every acknowledged width and height, the buffer size the       *)
(* handler computes is the product height*width*4*2 itself, not wrapped    *)
(* modulo 2^32, and the size given to create_pool, as an i32, is positive  *)
(* and is the length of the region allocated.                              *)
C37_SizeDoesNotWrap ==
    last.op = "total_buffer_size"
    => /\ ~last.panicked
       /\ Pad(last.total, 9) = ExactSize(last.width, last.height)
       /\ last.allocated
       /\ ~last.pool_negative

(* ---------------------------------------------------------------------- *)
(* C35: the front-end takes the state cell without blocking or panicking.  *)
(* A call of create_surface or render made while the state is borrowed,    *)
(* from a callback that runs during render, is skipped and reported as     *)
(* not ready; nothing panics.                                              *)
C35_ReentrantCallNotReady ==
    /\ ~panicked
    /\ (last.op = "lua_callback" /\ last.call # "none")
       => last.result = "not ready"

====
